---- MODULE Spec2Model ----
(***************************************************************************)
(* Sentinel trading terminal: the grid aggregation processor               *)
(* (DataProcessor), its snapshot hand-off to the renderer and the         *)
(* 100 ms order-book sampler.                                              *)
(*                                                                         *)
(* Handlers are written as operators over a record of the processor's     *)
(* state (a "world"), so that a handler that calls another one is the     *)
(* composition of the two.  Spec runs every handler as one step; SpecConc *)
(* splits the handlers at their lock operations.                          *)
(***************************************************************************)
EXTENDS Integers, Sequences, FiniteSets, TLC

VARIABLES
    now,                    \* system_clock::now() in ms
    lastBucket,             \* static qint64 lastBucket of captureOrderBookSnapshot
    instance,               \* which DataProcessor object the fields below belong to
    viewState,              \* GridViewState shared by renderer and processor
    engineSnaps,            \* snapshots held by the LiquidityTimeSeriesEngine
    m_viewState,            \* DataProcessor: view state pointer is set
    m_dataCache,            \* DataProcessor: data cache pointer is set
    m_shuttingDown,
    m_timerActive,          \* m_snapshotTimer->isActive()
    m_connected,            \* listeners still connected to the processor's signals
    m_latestOrderBook,
    m_hasValidOrderBook,
    m_visibleCells,
    m_processedTimeRanges,
    m_lastProcessedTime,
    m_lastViewportVersion,
    m_currentTimeframe_ms,
    m_manualTimeframeSet,
    m_manualTimeframeTimer,
    m_publishedCells,
    heap,                   \* live shared vectors: handle -> cell sequence
    rendererCells,          \* UnifiedGridRenderer::m_visibleCells (a handle)
    lastOp,                 \* the handler that ran last
    signals,                \* signals emitted by the handler that ran last
    fed,                    \* snapshots given to the engine by that handler
    pass,                   \* locals of the updateVisibleCells pass it ran
    stopWins,               \* successful compare-exchanges on m_shuttingDown
    pc,                     \* SpecConc: position of each thread
    m_dataMutex,            \* SpecConc: owner of the data mutex
    m_snapshotMutex,        \* SpecConc: owner of the snapshot mutex
    local,                  \* SpecConc: per-thread locals
    ugr                     \* UnifiedGridRenderer: dirty flags, pan marker, scene node

-----------------------------------------------------------------------------
(* Program constants *)

BucketMs == 100
HalfWindowMs == 30000
PriceMargin == 100
AutoFitGapMs == 60000
ManualTimeoutMs == 10000
DefaultTimeframeMs == 100
TargetCells == 2000

(* Bounds of the model *)

MaxClockSteps == 2
MaxVersion == 2
MaxInstances == 2

\* SpecConc: resetZoom raises the viewport version only below this value
MaxResetVersion == 1

(* The modelled clock starts well after the epoch, a little inside a bucket, *)
(* and moves in whole buckets.  Market events carry the exchange timestamp  *)
(* EventTime.                                                               *)
ClockStart == 1000 * BucketMs + BucketMs \div 4
ClockStep == BucketMs
ClockEnd == ClockStart + MaxClockSteps * ClockStep
EventTime == ClockStart - BucketMs \div 2

None == "none"
NoHandle == 0

-----------------------------------------------------------------------------
(* Helpers *)

Min(S) == CHOOSE x \in S : \A y \in S : x <= y
Max(S) == CHOOSE x \in S : \A y \in S : x >= y

RECURSIVE SumSeq(_)
SumSeq(s) == IF s = <<>> THEN 0 ELSE Head(s) + SumSeq(Tail(s))

RECURSIVE SetToSortedSeq(_)
SetToSortedSeq(S) ==
    IF S = {} THEN <<>>
    ELSE LET m == Min(S) IN <<m>> \o SetToSortedSeq(S \ {m})

Range(s) == {s[i] : i \in 1..Len(s)}

-----------------------------------------------------------------------------
(* Market data *)

Level(p, q) == [price |-> p, size |-> q]

\* Two order books of instrument "X".  Book A has an ask outside the price
\* window [0, 200] that is bootstrapped from its mid price of 100.
BookLevels ==
    [ A |-> [bids |-> <<Level(50, 2)>>,  asks |-> <<Level(150, 3), Level(300, 4)>>],
      B |-> [bids |-> <<Level(100, 1)>>, asks |-> <<Level(300, 4)>>] ]

BookIds == {"A", "B"}

OrderBook(id, ts) ==
    [product_id |-> "X", timestamp |-> ts,
     bids |-> BookLevels[id].bids, asks |-> BookLevels[id].asks]

\* a null std::shared_ptr<const OrderBook>
NoBook == [product_id |-> "nullptr", timestamp |-> 0, bids |-> <<>>, asks |-> <<>>]

WithTimestamp(ob, ts) == [ob EXCEPT !.timestamp = ts]

-----------------------------------------------------------------------------
(* LiquidityTimeSeriesEngine: the aggregation engine is an external        *)
(* collaborator; it is modelled from its interface: it keeps the snapshots *)
(* it was given and answers a query with one slice per time bucket of the  *)
(* requested timeframe, aggregated per price tick.                         *)

PriceResolution == 50
Timeframes == {DefaultTimeframeMs, 2 * DefaultTimeframeMs}

addOrderBookSnapshot(snaps, ob) == snaps \cup {ob}

SliceStart(ts, tf) == (ts \div tf) * tf

LevelPrices(levels) == {levels[i].price : i \in 1..Len(levels)}

\* quantity a snapshot holds at a price on one side (0 when absent)
SizeAt(levels, price) ==
    SumSeq([i \in 1..Len(levels) |->
                IF levels[i].price = price THEN levels[i].size ELSE 0])

Side(ob, isBid) == IF isBid THEN ob.bids ELSE ob.asks

RECURSIVE TotalSize(_, _, _)
TotalSize(S, isBid, price) ==
    IF S = {} THEN 0
    ELSE LET s == CHOOSE x \in S : TRUE
         IN SizeAt(Side(s, isBid), price) + TotalSize(S \ {s}, isBid, price)

Metrics(S, isBid, price) ==
    [snapshotCount |-> Cardinality({s \in S : price \in LevelPrices(Side(s, isBid))}),
     value |-> TotalSize(S, isBid, price)]

BuildSlice(snaps, tf, start) ==
    LET S == {s \in snaps : SliceStart(s.timestamp, tf) = start}
        ticks == {p \div PriceResolution :
                    p \in UNION {LevelPrices(s.bids) \cup LevelPrices(s.asks) : s \in S}}
        lo == Min(ticks)
        hi == Max(ticks)
    IN [startTime_ms |-> start,
        endTime_ms |-> start + tf,
        tickSize |-> PriceResolution,
        minTick |-> lo,
        bidMetrics |-> [i \in 1..(hi - lo + 1) |->
                           Metrics(S, TRUE, (lo + i - 1) * PriceResolution)],
        askMetrics |-> [i \in 1..(hi - lo + 1) |->
                           Metrics(S, FALSE, (lo + i - 1) * PriceResolution)]]

\* all slices of a timeframe, oldest first
AllSlices(snaps, tf) ==
    LET starts == SetToSortedSeq({SliceStart(s.timestamp, tf) : s \in snaps})
    IN [i \in 1..Len(starts) |-> BuildSlice(snaps, tf, starts[i])]

\* slices of a timeframe that intersect [startMs, endMs], oldest first
getVisibleSlices(snaps, tf, startMs, endMs) ==
    SelectSeq(AllSlices(snaps, tf),
              LAMBDA sl : sl.endTime_ms >= startMs /\ sl.startTime_ms <= endMs)

\* the timeframe heuristic: the finest timeframe whose slice count over the
\* visible range stays within the cell budget
suggestTimeframe(startMs, endMs, targetCellCount) ==
    LET fits == {tf \in Timeframes : (endMs - startMs) \div tf <= targetCellCount}
    IN IF fits # {} THEN Min(fits) ELSE Max(Timeframes)

\* LiquidityTimeSlice::getDisplayValue(price, isBid, 0)
getDisplayValue(slice, price, isBid) ==
    LET i == (price \div slice.tickSize) - slice.minTick + 1
        m == IF isBid THEN slice.bidMetrics ELSE slice.askMetrics
    IN IF i \in 1..Len(m) THEN m[i].value ELSE 0

-----------------------------------------------------------------------------
(* GridViewState: not part of the sources at hand; modelled from its use   *)
(* and from the data model: a viewport with a version counter that is      *)
(* incremented on every mutation.                                          *)

InitialViewState(autoScroll) ==
    [visibleTimeStart |-> 0, visibleTimeEnd |-> 0, minPrice |-> 0, maxPrice |-> 0,
     timeWindowValid |-> FALSE, viewportVersion |-> 0,
     autoScrollEnabled |-> autoScroll,
     panning |-> FALSE, panVisualOffset |-> 0]

setViewport(v, timeStart, timeEnd, priceMin, priceMax) ==
    [v EXCEPT !.visibleTimeStart = timeStart, !.visibleTimeEnd = timeEnd,
              !.minPrice = priceMin, !.maxPrice = priceMax,
              !.timeWindowValid = TRUE,
              !.viewportVersion = @ + 1]

\* resetZoom restores zoom and pan; whether that counts as a viewport mutation
\* is not visible from the processor, so both outcomes are modelled.
resetZoom(v, bumps) ==
    IF bumps THEN [v EXCEPT !.viewportVersion = @ + 1] ELSE v

enableAutoScroll(v, enabled) == [v EXCEPT !.autoScrollEnabled = enabled]

\* interactive pan: the drag is shown as a visual offset, which handlePanEnd
\* holds (does not zero); the offset goes away with clearPanVisualOffset
handlePanStart(v) == [v EXCEPT !.panning = TRUE]

handlePanMove(v, offset) == IF v.panning THEN [v EXCEPT !.panVisualOffset = offset] ELSE v

handlePanEnd(v) == [v EXCEPT !.panning = FALSE]

clearPanVisualOffset(v) == [v EXCEPT !.panVisualOffset = 0]

-----------------------------------------------------------------------------
(* DataProcessor state as one record, and the shared vectors *)

World ==
    [now |-> now, lastBucket |-> lastBucket, viewState |-> viewState,
     engineSnaps |-> engineSnaps, m_viewState |-> m_viewState,
     m_shuttingDown |-> m_shuttingDown, m_timerActive |-> m_timerActive,
     m_connected |-> m_connected, m_latestOrderBook |-> m_latestOrderBook,
     m_hasValidOrderBook |-> m_hasValidOrderBook,
     m_visibleCells |-> m_visibleCells,
     m_processedTimeRanges |-> m_processedTimeRanges,
     m_lastProcessedTime |-> m_lastProcessedTime,
     m_lastViewportVersion |-> m_lastViewportVersion,
     m_currentTimeframe_ms |-> m_currentTimeframe_ms,
     m_manualTimeframeSet |-> m_manualTimeframeSet,
     m_manualTimeframeTimer |-> m_manualTimeframeTimer,
     m_publishedCells |-> m_publishedCells, heap |-> heap,
     m_dataCache |-> m_dataCache,
     signals |-> signals, fed |-> fed, pass |-> pass, stopWins |-> stopWins,
     visibleSlices |-> <<>>]

NoPass ==
    [ran |-> FALSE, currentViewportVersion |-> 0, viewportChanged |-> FALSE,
     rebuild |-> FALSE, beforeSize |-> 0, changed |-> FALSE, ranges |-> <<>>,
     snapped |-> FALSE, activeTimeframe |-> 0,
     queries |-> 0, unbounded |-> 0, suggested |-> FALSE,
     lastSeenVersion |-> 0]

\* a handler starts with nothing emitted, nothing fed and no pass run
Begin(w) == [w EXCEPT !.signals = <<>>, !.fed = <<>>, !.pass = NoPass]

emit(w, sig) == [w EXCEPT !.signals = Append(@, sig)]

feed(w, ob) ==
    [w EXCEPT !.engineSnaps = addOrderBookSnapshot(@, ob), !.fed = Append(@, ob)]

FreshHandle(h) == Min({n \in 1..(Cardinality(DOMAIN h) + 1) : n \notin DOMAIN h})

\* (variant) the published vector is overwritten in place when there is one
publishInPlace(w) ==
    IF w.m_publishedCells # NoHandle
    THEN [w EXCEPT !.heap = [@ EXCEPT ![w.m_publishedCells] = w.m_visibleCells]]
    ELSE [w EXCEPT !.heap = (1 :> w.m_visibleCells) @@ w.heap,
                   !.m_publishedCells = 1]

\* m_publishedCells = std::make_shared<std::vector<CellInstance>>(m_visibleCells)
publish(w) ==
    LET h == FreshHandle(w.heap)
    IN [w EXCEPT !.heap = (h :> w.m_visibleCells) @@ w.heap,
                 !.m_publishedCells = h]

-----------------------------------------------------------------------------
(* DataProcessor::createLiquidityCell, createCellsFromLiquiditySlice *)

\* (variant) the new cell goes to the front of the working list
createLiquidityCellFront(w, slice, price, liquidity, isBid) ==
    IF liquidity <= 0 \/ ~w.m_viewState THEN w
    ELSE IF price < w.viewState.minPrice \/ price > w.viewState.maxPrice THEN w
    ELSE IF slice.endTime_ms < w.viewState.visibleTimeStart
            \/ slice.startTime_ms > w.viewState.visibleTimeEnd THEN w
    ELSE [w EXCEPT !.m_visibleCells =
              <<[timeStart_ms |-> slice.startTime_ms,
                 timeEnd_ms |-> slice.endTime_ms,
                 priceMin |-> price - slice.tickSize \div 2,
                 priceMax |-> price + slice.tickSize \div 2,
                 liquidity |-> liquidity,
                 isBid |-> isBid]>> \o @]

\* (variant) the side of the level is not carried into the cell
createLiquidityCellBidOnly(w, slice, price, liquidity, isBid) ==
    IF liquidity <= 0 \/ ~w.m_viewState THEN w
    ELSE IF price < w.viewState.minPrice \/ price > w.viewState.maxPrice THEN w
    ELSE IF slice.endTime_ms < w.viewState.visibleTimeStart
            \/ slice.startTime_ms > w.viewState.visibleTimeEnd THEN w
    ELSE [w EXCEPT !.m_visibleCells =
              Append(@, [timeStart_ms |-> slice.startTime_ms,
                         timeEnd_ms |-> slice.endTime_ms,
                         priceMin |-> price - slice.tickSize \div 2,
                         priceMax |-> price + slice.tickSize \div 2,
                         liquidity |-> liquidity,
                         isBid |-> TRUE])]

createLiquidityCell(w, slice, price, liquidity, isBid) ==
    IF liquidity <= 0 \/ ~w.m_viewState THEN w
    ELSE IF price < w.viewState.minPrice \/ price > w.viewState.maxPrice THEN w
    ELSE IF slice.endTime_ms < w.viewState.visibleTimeStart
            \/ slice.startTime_ms > w.viewState.visibleTimeEnd THEN w
    ELSE LET halfTick == slice.tickSize \div 2
             cell == [timeStart_ms |-> slice.startTime_ms,
                      timeEnd_ms |-> IF slice.endTime_ms > slice.startTime_ms
                                     THEN slice.endTime_ms
                                     ELSE slice.startTime_ms
                                          + Max({w.m_currentTimeframe_ms, 1}),
                      priceMin |-> price - halfTick,
                      priceMax |-> price + halfTick,
                      liquidity |-> liquidity,
                      isBid |-> isBid]
         IN [w EXCEPT !.m_visibleCells = Append(@, cell)]

RECURSIVE levelLoop(_, _, _, _)
levelLoop(w, slice, isBid, i) ==
    LET metrics == IF isBid THEN slice.bidMetrics ELSE slice.askMetrics
        price == slice.minTick * slice.tickSize + (i - 1) * slice.tickSize
    IN IF i > Len(metrics) THEN w
       ELSE IF metrics[i].snapshotCount > 0
               /\ price >= w.viewState.minPrice /\ price <= w.viewState.maxPrice
            THEN levelLoop(createLiquidityCell(w, slice, price,
                                               getDisplayValue(slice, price, isBid),
                                               isBid),
                           slice, isBid, i + 1)
            ELSE levelLoop(w, slice, isBid, i + 1)

createCellsFromLiquiditySlice(w, slice) ==
    IF ~w.m_viewState THEN w
    ELSE levelLoop(levelLoop(w, slice, TRUE, 1), slice, FALSE, 1)

-----------------------------------------------------------------------------
(* DataProcessor::updateVisibleCells.  The locals of a pass are kept in the *)
(* pass record (and the queried slices in visibleSlices); the pass is the   *)
(* composition of its stages in program order.                              *)

SliceTimeRange(slice) == <<slice.startTime_ms, slice.endTime_ms>>

noteEndTime(w, slice) ==
    IF slice.endTime_ms > w.m_lastProcessedTime
    THEN [w EXCEPT !.m_lastProcessedTime = slice.endTime_ms]
    ELSE w

markProcessed(w, slice) ==
    [w EXCEPT !.m_processedTimeRanges = @ \cup {SliceTimeRange(slice)}]

\* full rebuild: every returned slice is processed
RECURSIVE rebuildLoop(_, _, _)
rebuildLoop(w, slices, i) ==
    IF i > Len(slices) THEN w
    ELSE rebuildLoop(noteEndTime(markProcessed(
                         createCellsFromLiquiditySlice(w, slices[i]), slices[i]),
                         slices[i]),
                     slices, i + 1)

\* (variant) append mode without the processed-range lookup
appendSliceUntracked(w, slice) ==
    markProcessed(createCellsFromLiquiditySlice(w, slice), slice)

\* append mode: a slice is processed when its time range is new
appendSlice(w, slice) ==
    IF SliceTimeRange(slice) \notin w.m_processedTimeRanges
    THEN markProcessed(createCellsFromLiquiditySlice(w, slice), slice)
    ELSE w

RECURSIVE appendLoop(_, _, _)
appendLoop(w, slices, i) ==
    IF i > Len(slices) THEN w
    ELSE appendLoop(noteEndTime(appendSlice(w, slices[i]), slices[i]), slices, i + 1)

\* the pass got past its entry checks
beginPass(w) ==
    [w EXCEPT !.pass = [NoPass EXCEPT
        !.ran = TRUE,
        !.currentViewportVersion = w.viewState.viewportVersion,
        !.lastSeenVersion = w.m_lastViewportVersion,
        !.viewportChanged = w.viewState.viewportVersion # w.m_lastViewportVersion]]

\* (variant) version gating that does not note the version it saw
versionGateForgetful(w) ==
    IF w.pass.viewportChanged
    THEN [w EXCEPT !.m_visibleCells = <<>>,
                   !.m_processedTimeRanges = {},
                   !.m_lastProcessedTime = 0]
    ELSE w

\* (variant) version gating that keeps the working list
versionGateKeepingCells(w) ==
    IF w.pass.viewportChanged
    THEN [w EXCEPT !.m_processedTimeRanges = {},
                   !.m_lastProcessedTime = 0,
                   !.m_lastViewportVersion = w.viewState.viewportVersion]
    ELSE w

\* viewport version gating
versionGate(w) ==
    IF w.pass.viewportChanged
    THEN [w EXCEPT !.m_visibleCells = <<>>,
                   !.m_processedTimeRanges = {},
                   !.m_lastProcessedTime = 0,
                   !.m_lastViewportVersion = w.viewState.viewportVersion]
    ELSE w

\* (variant) the override lapses at ManualTimeoutMs sharp
manualOverrideExpiredAtTimeout(w) ==
    w.m_manualTimeframeTimer >= 0
    /\ w.now - w.m_manualTimeframeTimer >= ManualTimeoutMs

manualOverrideExpired(w) ==
    w.m_manualTimeframeTimer >= 0
    /\ w.now - w.m_manualTimeframeTimer > ManualTimeoutMs

optimalTimeframe(w) ==
    suggestTimeframe(w.viewState.visibleTimeStart, w.viewState.visibleTimeEnd,
                     TargetCells)

\* manual timeframe if set, otherwise the engine's suggestion
chooseTimeframe(w) ==
    IF ~w.m_manualTimeframeSet \/ manualOverrideExpired(w)
    THEN IF optimalTimeframe(w) # w.m_currentTimeframe_ms
         THEN [w EXCEPT !.m_currentTimeframe_ms = optimalTimeframe(w),
                        !.pass.activeTimeframe = optimalTimeframe(w),
                        !.pass.suggested = TRUE]
         ELSE [w EXCEPT !.pass.activeTimeframe = w.m_currentTimeframe_ms,
                        !.pass.suggested = TRUE]
    ELSE [w EXCEPT !.pass.activeTimeframe = w.m_currentTimeframe_ms]

\* getVisibleSlices(activeTimeframe, timeStart, timeEnd)
querySlices(w) ==
    [w EXCEPT !.visibleSlices =
        getVisibleSlices(w.engineSnaps, w.pass.activeTimeframe,
                         w.viewState.visibleTimeStart, w.viewState.visibleTimeEnd),
              !.pass.queries = @ + 1]

\* getVisibleSlices(activeTimeframe, 0, LLONG_MAX)
queryAll(w) == [w EXCEPT !.pass.unbounded = @ + 1]

newestTime(w) ==
    AllSlices(w.engineSnaps, w.pass.activeTimeframe)
        [Len(AllSlices(w.engineSnaps, w.pass.activeTimeframe))].endTime_ms

\* (variant) the snap moves the time bounds without a new viewport version
snapToRecentUnversioned(w, newest) ==
    querySlices([w EXCEPT !.viewState.visibleTimeStart = newest - HalfWindowMs,
                          !.viewState.visibleTimeEnd = newest + HalfWindowMs,
                          !.pass.snapped = TRUE])

\* the viewport is moved onto the newest data and the slices are queried again
snapToRecent(w, newest) ==
    querySlices([w EXCEPT !.viewState =
                              setViewport(@, newest - HalfWindowMs,
                                          newest + HalfWindowMs,
                                          @.minPrice, @.maxPrice),
                          !.pass.snapped = TRUE])

\* (variant) the snap is taken from a gap of AutoFitGapMs on
autoFitAtBoundary(w) ==
    IF w.visibleSlices = <<>> /\ w.viewState.autoScrollEnabled
    THEN IF AllSlices(w.engineSnaps, w.pass.activeTimeframe) # <<>>
            /\ w.viewState.visibleTimeStart - newestTime(w) >= AutoFitGapMs
         THEN snapToRecent(queryAll(w), newestTime(w))
         ELSE queryAll(w)
    ELSE w

\* no slice in view: with auto-scroll, snap the viewport to the newest data
autoFit(w) ==
    IF w.visibleSlices = <<>> /\ w.viewState.autoScrollEnabled
    THEN IF AllSlices(w.engineSnaps, w.pass.activeTimeframe) # <<>>
            /\ w.viewState.visibleTimeStart - newestTime(w) > AutoFitGapMs
         THEN snapToRecent(queryAll(w), newestTime(w))
         ELSE queryAll(w)
    ELSE w

classifyPass(w) ==
    [w EXCEPT !.pass.beforeSize = Len(w.m_visibleCells),
              !.pass.rebuild = w.pass.viewportChanged \/ w.m_lastProcessedTime = 0,
              !.pass.ranges = [i \in 1..Len(w.visibleSlices) |->
                                  SliceTimeRange(w.visibleSlices[i])]]

processSlices(w) ==
    IF w.pass.rebuild
    THEN rebuildLoop([w EXCEPT !.m_processedTimeRanges = {}], w.visibleSlices, 1)
    ELSE appendLoop(w, w.visibleSlices, 1)

detectChange(w) ==
    [w EXCEPT !.pass.changed =
        w.pass.viewportChanged \/ Len(w.m_visibleCells) # w.pass.beforeSize]

\* (variant) publish on a change of size only
publishIfResized(w) ==
    IF Len(w.m_visibleCells) # w.pass.beforeSize
    THEN emit(publish(w), "dataUpdated")
    ELSE w

\* publish snapshot only when something changed
publishIfChanged(w) ==
    IF w.pass.changed THEN emit(publish(w), "dataUpdated") ELSE w

\* the entry checks of a pass
passEnabled(w) ==
    ~w.m_shuttingDown /\ w.m_viewState /\ w.viewState.timeWindowValid

\* the pass up to the decision to publish
computePass(w) ==
    detectChange(processSlices(classifyPass(
        autoFit(querySlices(chooseTimeframe(versionGate(beginPass(w))))))))

\* (variant) the viewport is not checked at entry
updateVisibleCellsUnchecked(w) ==
    IF w.m_shuttingDown THEN w
    ELSE publishIfChanged(computePass(w))

updateVisibleCells(w) ==
    IF w.m_shuttingDown THEN w
    ELSE IF ~w.m_viewState \/ ~w.viewState.timeWindowValid THEN w
    ELSE publishIfChanged(computePass(w))

-----------------------------------------------------------------------------
(* DataProcessor: viewport bootstrap, ingestion, sampler, clear, shutdown *)

Trade(id, price, ts) ==
    [product_id |-> id, price |-> price, size |-> 1, timestamp |-> ts]

initializeViewportFromTrade(w, trade) ==
    IF ~w.m_viewState THEN w
    ELSE emit([w EXCEPT !.viewState =
                   setViewport(@, trade.timestamp - HalfWindowMs,
                               trade.timestamp + HalfWindowMs,
                               trade.price - PriceMargin,
                               trade.price + PriceMargin)],
              "viewportInitialized")

midPrice(book) ==
    IF book.bids # <<>> /\ book.asks # <<>>
    THEN (book.bids[1].price + book.asks[1].price) \div 2
    ELSE IF book.bids # <<>> THEN book.bids[1].price
    ELSE IF book.asks # <<>> THEN book.asks[1].price
    ELSE 100000

initializeViewportFromOrderBook(w, book) ==
    IF ~w.m_viewState THEN w
    ELSE emit([w EXCEPT !.viewState =
                   setViewport(@, book.timestamp - HalfWindowMs,
                               book.timestamp + HalfWindowMs,
                               midPrice(book) - PriceMargin,
                               midPrice(book) + PriceMargin)],
              "viewportInitialized")

bootstrapFromTrade(w, trade) ==
    IF w.m_viewState /\ ~w.viewState.timeWindowValid
    THEN initializeViewportFromTrade(w, trade)
    ELSE w

\* (variant) an accepted trade also runs a visible-cells pass
onTradeReceivedRefreshing(w, trade) ==
    IF w.m_shuttingDown THEN w
    ELSE IF trade.product_id = "" THEN w
    ELSE updateVisibleCells(bootstrapFromTrade(w, trade))

onTradeReceived(w, trade) ==
    IF w.m_shuttingDown THEN w
    ELSE IF trade.product_id = "" THEN w
    ELSE bootstrapFromTrade(w, trade)

storeOrderBook(w, book) ==
    [w EXCEPT !.m_latestOrderBook = book, !.m_hasValidOrderBook = TRUE]

\* (variant) the viewport is initialised by every accepted book
bootstrapFromOrderBookAlways(w, book) == initializeViewportFromOrderBook(w, book)

bootstrapFromOrderBook(w, book) ==
    IF w.m_viewState /\ ~w.viewState.timeWindowValid
    THEN initializeViewportFromOrderBook(w, book)
    ELSE w

\* (variant) the shutdown flag is not read at entry
onOrderBookUpdatedUnguarded(w, book) ==
    IF book = NoBook THEN w
    ELSE IF book.product_id = "" \/ book.bids = <<>> \/ book.asks = <<>> THEN w
    ELSE updateVisibleCells(bootstrapFromOrderBook(storeOrderBook(w, book), book))

onOrderBookUpdated(w, book) ==
    IF w.m_shuttingDown THEN w
    ELSE IF book = NoBook THEN w
    ELSE IF book.product_id = "" \/ book.bids = <<>> \/ book.asks = <<>> THEN w
    ELSE updateVisibleCells(bootstrapFromOrderBook(storeOrderBook(w, book), book))

\* (variant) only the current bucket is sampled after a gap
carryForwardCurrentOnly(w, book_copy, ts, bucketStart) ==
    [feed(w, WithTimestamp(book_copy, bucketStart)) EXCEPT !.lastBucket = bucketStart]

\* carry the book forward into every bucket after lastBucket up to bucketStart
RECURSIVE carryForward(_, _, _, _)
carryForward(w, book_copy, ts, bucketStart) ==
    IF ts > bucketStart THEN w
    ELSE carryForward([feed(w, WithTimestamp(book_copy, ts)) EXCEPT !.lastBucket = ts],
                      book_copy, ts + BucketMs, bucketStart)

bucketStartOf(w) == (w.now \div BucketMs) * BucketMs

\* the tick has a bucket to sample: the first one ever, or a later one
sampleDue(w) == w.lastBucket = 0 \/ bucketStartOf(w) > w.lastBucket

sampleBuckets(w, book_copy) ==
    IF w.lastBucket = 0
    THEN [feed(w, WithTimestamp(book_copy, bucketStartOf(w)))
             EXCEPT !.lastBucket = bucketStartOf(w)]
    ELSE carryForward(w, book_copy, w.lastBucket + BucketMs, bucketStartOf(w))

captureOrderBookSnapshot(w) ==
    IF w.m_shuttingDown THEN w
    ELSE IF w.m_latestOrderBook = NoBook THEN w
    ELSE IF sampleDue(w)
         THEN updateVisibleCells(sampleBuckets(w, w.m_latestOrderBook))
         ELSE w

forgetOrderBook(w) ==
    [w EXCEPT !.m_latestOrderBook = NoBook, !.m_hasValidOrderBook = FALSE]

resetView(w, bumps) ==
    IF w.m_viewState THEN [w EXCEPT !.viewState = resetZoom(@, bumps)] ELSE w

\* (variant) the published pointer is left alone
resetPublishedSkipped(w) == w

resetPublished(w) == [w EXCEPT !.m_publishedCells = NoHandle]

clearData(w, bumps) ==
    emit(resetPublished(resetView(forgetOrderBook(w), bumps)), "dataUpdated")

\* (variant) the shutdown flag is not consulted
winsShutdownAlways(w) == TRUE

\* m_shuttingDown.compare_exchange_strong(expected = false, true) succeeds
winsShutdown(w) == ~w.m_shuttingDown

markShuttingDown(w) == [w EXCEPT !.m_shuttingDown = TRUE, !.stopWins = @ + 1]

\* stop the timer, disconnect every listener
teardown(w) == [w EXCEPT !.m_timerActive = FALSE, !.m_connected = FALSE]

stopProcessing(w, bumps) ==
    IF winsShutdown(w)
    THEN clearData(teardown(markShuttingDown(w)), bumps)
    ELSE w

startProcessing(w) ==
    IF ~w.m_timerActive THEN [w EXCEPT !.m_timerActive = TRUE] ELSE w

setTimeframe(w, timeframe_ms) ==
    IF timeframe_ms > 0
    THEN emit([w EXCEPT !.m_currentTimeframe_ms = timeframe_ms,
                        !.m_manualTimeframeSet = TRUE,
                        !.m_manualTimeframeTimer = w.now],
              "dataUpdated")
    ELSE w

-----------------------------------------------------------------------------
(* DataProcessor::onLiveOrderBookUpdated: dense ingestion and the           *)
(* mid-centred band of the sparse path.  Real-valued quantities of the      *)
(* band arithmetic are held in thousandths (Milli).                         *)

Milli == 1000
kMaxPerSide == 4000
m_useDenseIngestion == TRUE

\* LiveOrderBook of the data cache: quantities per tick above minPrice
DenseBook(minPrice, tickSize, bids, asks) ==
    [minPrice |-> minPrice, tickSize |-> tickSize, bids |-> bids, asks |-> asks]

LiveBooks ==
    [ empty |-> DenseBook(50, 50, <<0, 0, 0, 0, 0, 0>>, <<0, 0, 0, 0, 0, 0>>),
      A     |-> DenseBook(50, 50, <<2, 0, 0, 0, 0, 0>>, <<0, 0, 3, 0, 0, 0>>),
      B     |-> DenseBook(50, 50, <<0, 1, 0, 0, 0, 0>>, <<0, 0, 0, 0, 0, 4>>) ]

LiveBookIds == {"empty", "A", "B"}

PriceAt(lb, idx) == lb.minPrice + idx * lb.tickSize

NonZeroIdx(dense) == {i - 1 : i \in {j \in 1..Len(dense) : dense[j] > 0}}

\* levels of the given tick indices, in the given order of indices
LevelsAt(lb, dense, idxSeq) ==
    [k \in 1..Len(idxSeq) |-> Level(PriceAt(lb, idxSeq[k]), dense[idxSeq[k] + 1])]

Reverse(s) == [k \in 1..Len(s) |-> s[Len(s) + 1 - k]]

FirstN(s, n) == IF Len(s) <= n THEN s ELSE SubSeq(s, 1, n)

\* LiveOrderBook::captureDenseNonZero: the non-zero levels, at most maxPerSide
captureDenseNonZero(lb, maxPerSide) ==
    [bidLevels |-> FirstN(LevelsAt(lb, lb.bids,
                                   Reverse(SetToSortedSeq(NonZeroIdx(lb.bids)))),
                          maxPerSide),
     askLevels |-> FirstN(LevelsAt(lb, lb.asks, SetToSortedSeq(NonZeroIdx(lb.asks))),
                          maxPerSide)]

\* LiquidityTimeSeriesEngine::addDenseSnapshot
feedDense(w, view) ==
    feed(w, [product_id |-> "X", timestamp |-> w.now,
             bids |-> view.bidLevels, asks |-> view.askLevels])

CeilDiv(a, b) == -((-a) \div b)

halfBandOf(lb, mode, value, mid) ==
    LET absMid == IF mid < 0 THEN -mid ELSE mid
    IN CASE mode = "FixedDollar" -> Max({1, value})
         [] mode = "PercentMid"  -> Max({1, (absMid * value) \div Milli})
         [] mode = "Ticks"       -> Max({Milli, value}) * lb.tickSize

\* the levels the band scan pushes: the positive quantities inside the
\* mid-centred band, bids from the highest index down, asks upwards
bandScan(lb, mode, value) ==
    LET bidIdx == NonZeroIdx(lb.bids)
        askIdx == NonZeroIdx(lb.asks)
        hasBid == bidIdx # {}
        hasAsk == askIdx # {}
        bestBidIdx == IF hasBid THEN Max(bidIdx) ELSE 0
        bestAskIdx == IF hasAsk THEN Min(askIdx) ELSE 0
        bestBid == PriceAt(lb, bestBidIdx) * Milli
        bestAsk == PriceAt(lb, bestAskIdx) * Milli
        minPrice == lb.minPrice * Milli
        tick == lb.tickSize * Milli
        mid == IF hasBid /\ hasAsk THEN (bestBid + bestAsk) \div 2
               ELSE IF hasBid THEN bestBid
               ELSE IF hasAsk THEN bestAsk
               ELSE minPrice + (Len(lb.bids) * tick) \div 2
        maxHalfBand == (Max({Len(lb.bids), Len(lb.asks)}) * tick) \div 2
        halfBand == Min({halfBandOf(lb, mode, value, mid), maxHalfBand})
        bandMinPrice == mid - halfBand
        bandMaxPrice == mid + halfBand
        maxIndex(dense) == Min({Len(dense), CeilDiv(bandMaxPrice - minPrice, tick) + 1})
        minIndex == Max({0, (bandMinPrice - minPrice) \div tick})
        inBand(dense, idxs) == {i \in idxs : i >= minIndex /\ i <= maxIndex(dense) - 1}
    IN [bids |-> LevelsAt(lb, lb.bids,
                          Reverse(SetToSortedSeq(inBand(lb.bids, bidIdx)))),
        asks |-> LevelsAt(lb, lb.asks, SetToSortedSeq(inBand(lb.asks, askIdx)))]

\* the best bid (highest positive index) and best ask (lowest positive index)
\* as one-level lists; empty when the side has no positive quantity
bestBidOf(lb) ==
    IF NonZeroIdx(lb.bids) = {} THEN <<>>
    ELSE LevelsAt(lb, lb.bids, <<Max(NonZeroIdx(lb.bids))>>)

bestAskOf(lb) ==
    IF NonZeroIdx(lb.asks) = {} THEN <<>>
    ELSE LevelsAt(lb, lb.asks, <<Min(NonZeroIdx(lb.asks))>>)

\* (variant) an empty band is left empty
topOfBookFallbackSkipped(levels, best) == levels

\* the fallback: a side the band left empty receives its top of book
topOfBookFallback(levels, best) ==
    IF levels = <<>> /\ best # <<>> THEN best ELSE levels

\* the banded sparse snapshot built from the dense book
bandSnapshot(lb, mode, value, ts) ==
    [product_id |-> "X", timestamp |-> ts,
     bids |-> topOfBookFallback(bandScan(lb, mode, value).bids, bestBidOf(lb)),
     asks |-> topOfBookFallback(bandScan(lb, mode, value).asks, bestAskOf(lb))]

\* band settings: percentage of mid, 1 % half band
m_bandMode == "PercentMid"
m_bandValue == 10

\* the dense path: one dense snapshot, m_latestOrderBook kept
densePath(w, view) ==
    updateVisibleCells([feedDense(w, view) EXCEPT !.m_hasValidOrderBook = TRUE])

\* the sparse path under the band settings mode and value
sparsePath(w, liveBook, mode, value) ==
    IF bandSnapshot(liveBook, mode, value, w.now).bids # <<>>
       \/ bandSnapshot(liveBook, mode, value, w.now).asks # <<>>
    THEN updateVisibleCells(
             [feed(w, bandSnapshot(liveBook, mode, value, w.now))
                 EXCEPT !.m_latestOrderBook =
                            bandSnapshot(liveBook, mode, value, w.now),
                        !.m_hasValidOrderBook = TRUE])
    ELSE updateVisibleCells(w)

\* (variant) the sparse path also runs after the dense one
ingestBothPaths(w, liveBook, dense, mode, value) ==
    IF dense /\ (captureDenseNonZero(liveBook, kMaxPerSide).bidLevels # <<>>
                 \/ captureDenseNonZero(liveBook, kMaxPerSide).askLevels # <<>>)
    THEN sparsePath(densePath(w, captureDenseNonZero(liveBook, kMaxPerSide)),
                    liveBook, mode, value)
    ELSE sparsePath(w, liveBook, mode, value)

\* the body of onLiveOrderBookUpdated after the guards, with the dense
\* ingestion flag and the band settings it reads
ingest(w, liveBook, dense, mode, value) ==
    IF dense /\ (captureDenseNonZero(liveBook, kMaxPerSide).bidLevels # <<>>
                 \/ captureDenseNonZero(liveBook, kMaxPerSide).askLevels # <<>>)
    THEN densePath(w, captureDenseNonZero(liveBook, kMaxPerSide))
    ELSE sparsePath(w, liveBook, mode, value)

onLiveOrderBookUpdatedWith(w, liveBook, dense, mode, value) ==
    IF w.m_shuttingDown THEN w
    ELSE IF ~w.m_dataCache THEN w
    ELSE ingest(w, liveBook, dense, mode, value)

onLiveOrderBookUpdated(w, liveBook) ==
    onLiveOrderBookUpdatedWith(w, liveBook, m_useDenseIngestion, m_bandMode,
                               m_bandValue)

-----------------------------------------------------------------------------
(* State machine: every handler is one step *)

vars ==
    <<now, lastBucket, instance, viewState, engineSnaps, m_viewState, m_dataCache,
      m_shuttingDown, m_timerActive, m_connected, m_latestOrderBook,
      m_hasValidOrderBook, m_visibleCells, m_processedTimeRanges,
      m_lastProcessedTime, m_lastViewportVersion, m_currentTimeframe_ms,
      m_manualTimeframeSet, m_manualTimeframeTimer, m_publishedCells, heap,
      rendererCells, lastOp, signals, fed, pass, stopWins,
      pc, m_dataMutex, m_snapshotMutex, local, ugr>>

\* what a handler of the processor taken as one step leaves alone: the
\* lock-level positions and the renderer's own fields
concVars == <<pc, m_dataMutex, m_snapshotMutex, local, ugr>>

Threads == {"worker", "gui", "owner", "render"}

NoLocal == [book_copy |-> NoBook, casFailed |-> FALSE]

\* shared vectors still referenced by some shared_ptr
Restrict(h, roots) == [x \in (DOMAIN h) \cap roots |-> h[x]]

\* what the last updatePaintNode cycle did: the flags it exchanged, the
\* branches it took in order, its snapshot reads and its content rebuilds
NoCycle ==
    [ran |-> FALSE, isNewNode |-> FALSE, reads |-> 0, rebuilds |-> 0,
     exchanged |-> {}, stages |-> <<>>]

\* requested is the argument of the last UnifiedGridRenderer::setTimeframe
\* call, registered the timeframes it passed to addTimeframe
\* the fields of a freshly constructed UnifiedGridRenderer; queued counts the
\* dataUpdated notifications posted to the GUI thread and not yet handled,
\* content and transform are what the scene node shows, tradeCalls are the
\* onTradeReceived calls posted to the processor and not yet handled,
\* arrivals counts the trades received
InitialRenderer ==
    [m_geometryDirty |-> TRUE, m_appendPending |-> FALSE,
     m_transformDirty |-> FALSE, m_materialDirty |-> FALSE,
     m_panSyncPending |-> FALSE, sceneNode |-> FALSE,
     content |-> <<>>, transform |-> 0, queued |-> 0,
     panCleared |-> FALSE, cycle |-> NoCycle,
     m_recentTrades |-> <<>>, tradeCalls |-> <<>>, arrivals |-> 0,
     m_currentTimeframe_ms |-> DefaultTimeframeMs,
     m_manualTimeframeSet |-> FALSE, requested |-> 0, registered |-> {}]

\* the fields of a freshly constructed DataProcessor
FreshWorld ==
    [now |-> now, lastBucket |-> lastBucket,
     viewState |-> InitialViewState(TRUE), engineSnaps |-> {},
     m_viewState |-> FALSE, m_dataCache |-> FALSE,
     m_shuttingDown |-> FALSE, m_timerActive |-> FALSE, m_connected |-> TRUE,
     m_latestOrderBook |-> NoBook, m_hasValidOrderBook |-> FALSE,
     m_visibleCells |-> <<>>, m_processedTimeRanges |-> {},
     m_lastProcessedTime |-> 0, m_lastViewportVersion |-> 0,
     m_currentTimeframe_ms |-> DefaultTimeframeMs,
     m_manualTimeframeSet |-> FALSE, m_manualTimeframeTimer |-> -1,
     m_publishedCells |-> NoHandle, heap |-> <<>>,
     signals |-> <<>>, fed |-> <<>>, pass |-> NoPass, stopWins |-> 0,
     visibleSlices |-> <<>>]

Init ==
    /\ now = ClockStart
    /\ lastBucket = 0
    /\ instance = 1
    /\ viewState = InitialViewState(TRUE)
    /\ engineSnaps = {}
    /\ m_viewState = FALSE
    /\ m_dataCache = FALSE
    /\ m_shuttingDown = FALSE
    /\ m_timerActive = FALSE
    /\ m_connected = TRUE
    /\ m_latestOrderBook = NoBook
    /\ m_hasValidOrderBook = FALSE
    /\ m_visibleCells = <<>>
    /\ m_processedTimeRanges = {}
    /\ m_lastProcessedTime = 0
    /\ m_lastViewportVersion = 0
    /\ m_currentTimeframe_ms = DefaultTimeframeMs
    /\ m_manualTimeframeSet = FALSE
    /\ m_manualTimeframeTimer = -1
    /\ m_publishedCells = NoHandle
    /\ heap = <<>>
    /\ rendererCells = NoHandle
    /\ signals = <<>>
    /\ fed = <<>>
    /\ pass = NoPass
    /\ stopWins = 0
    /\ lastOp = "constructor"
    /\ pc = [t \in Threads |-> "idle"]
    /\ m_dataMutex = None
    /\ m_snapshotMutex = None
    /\ local = [t \in Threads |-> NoLocal]
    /\ ugr = InitialRenderer

\* the step of a handler: the world it leaves, the handle the renderer holds
Commit(w, op, held) ==
    /\ now' = w.now
    /\ lastBucket' = w.lastBucket
    /\ viewState' = w.viewState
    /\ engineSnaps' = w.engineSnaps
    /\ m_viewState' = w.m_viewState
    /\ m_dataCache' = w.m_dataCache
    /\ m_shuttingDown' = w.m_shuttingDown
    /\ m_timerActive' = w.m_timerActive
    /\ m_connected' = w.m_connected
    /\ m_latestOrderBook' = w.m_latestOrderBook
    /\ m_hasValidOrderBook' = w.m_hasValidOrderBook
    /\ m_visibleCells' = w.m_visibleCells
    /\ m_processedTimeRanges' = w.m_processedTimeRanges
    /\ m_lastProcessedTime' = w.m_lastProcessedTime
    /\ m_lastViewportVersion' = w.m_lastViewportVersion
    /\ m_currentTimeframe_ms' = w.m_currentTimeframe_ms
    /\ m_manualTimeframeSet' = w.m_manualTimeframeSet
    /\ m_manualTimeframeTimer' = w.m_manualTimeframeTimer
    /\ m_publishedCells' = w.m_publishedCells
    /\ heap' = Restrict(w.heap, {w.m_publishedCells, held})
    /\ rendererCells' = held
    /\ signals' = w.signals
    /\ fed' = w.fed
    /\ pass' = w.pass
    /\ stopWins' = w.stopWins
    /\ lastOp' = op

ClockJumps == {ClockStep, 2 * ClockStep}

\* time passes between two handlers
AdvanceClock ==
    /\ \E d \in ClockJumps :
          /\ now + d <= ClockEnd
          /\ Commit([Begin(World) EXCEPT !.now = now + d], "clock", rendererCells)
    /\ UNCHANGED <<instance, concVars>>

SetGridViewState ==
    /\ ~m_viewState
    /\ Commit([Begin(World) EXCEPT !.m_viewState = TRUE], "setGridViewState",
              rendererCells)
    /\ UNCHANGED <<instance, concVars>>

SetDataCache ==
    /\ ~m_dataCache
    /\ Commit([Begin(World) EXCEPT !.m_dataCache = TRUE], "setDataCache",
              rendererCells)
    /\ UNCHANGED <<instance, concVars>>

StartProcessing ==
    /\ ~m_timerActive /\ ~m_shuttingDown
    /\ Commit(startProcessing(Begin(World)), "startProcessing", rendererCells)
    /\ UNCHANGED <<instance, concVars>>

TradeInputs == {Trade("X", 100, EventTime), Trade("", 100, EventTime)}

OnTradeReceived ==
    /\ \E trade \in TradeInputs :
          Commit(onTradeReceived(Begin(World), trade), "onTradeReceived",
                 rendererCells)
    /\ UNCHANGED <<instance, concVars>>

\* one well-formed book, a null pointer and a book with an empty side
BookInputs ==
    {OrderBook("A", EventTime), NoBook,
     [OrderBook("A", EventTime) EXCEPT !.bids = <<>>]}

OnOrderBookUpdated ==
    /\ \E book \in BookInputs :
          Commit(onOrderBookUpdated(Begin(World), book),
                 "onOrderBookUpdated", rendererCells)
    /\ UNCHANGED <<instance, concVars>>

OnLiveOrderBookUpdated ==
    /\ \E id \in LiveBookIds :
          Commit(onLiveOrderBookUpdated(Begin(World), LiveBooks[id]),
                 "onLiveOrderBookUpdated", rendererCells)
    /\ UNCHANGED <<instance, concVars>>

\* the 100 ms timer fires (a timeout already queued may still arrive after stop)
CaptureOrderBookSnapshot ==
    /\ m_timerActive \/ m_shuttingDown
    /\ Commit(captureOrderBookSnapshot(Begin(World)),
              "captureOrderBookSnapshot", rendererCells)
    /\ UNCHANGED <<instance, concVars>>

UpdateVisibleCells ==
    /\ Commit(updateVisibleCells(Begin(World)), "updateVisibleCells", rendererCells)
    /\ UNCHANGED <<instance, concVars>>

ClearData ==
    /\ \E bumps \in BOOLEAN :
          /\ bumps => viewState.viewportVersion < MaxVersion
          /\ Commit(clearData(Begin(World), bumps), "clearData", rendererCells)
    /\ UNCHANGED <<instance, concVars>>

StopProcessing ==
    /\ \E bumps \in BOOLEAN :
          /\ bumps => viewState.viewportVersion < MaxVersion
          /\ Commit(stopProcessing(Begin(World), bumps), "stopProcessing",
                    rendererCells)
    /\ UNCHANGED <<instance, concVars>>

SetTimeframe ==
    /\ \E tf \in Timeframes :
          Commit(setTimeframe(Begin(World), tf), "setTimeframe", rendererCells)
    /\ UNCHANGED <<instance, concVars>>

\* viewports a user can pan or zoom to: one far after the data, one around it
ViewportChoices ==
    { <<ClockStart + 100000, ClockStart + 100000 + 2 * HalfWindowMs, 0, 200>>,
      <<ClockStart - 5 * HalfWindowMs, ClockStart + 5 * HalfWindowMs, 100, 300>> }

\* UnifiedGridRenderer::onViewChanged
OnViewChanged ==
    /\ viewState.viewportVersion < MaxVersion
    /\ \E c \in ViewportChoices :
          /\ c # <<viewState.visibleTimeStart, viewState.visibleTimeEnd,
                   viewState.minPrice, viewState.maxPrice>>
          /\ Commit([Begin(World) EXCEPT !.viewState =
                         setViewport(@, c[1], c[2], c[3], c[4])],
                    "onViewChanged", rendererCells)
    /\ UNCHANGED <<instance, concVars>>

EnableAutoScroll ==
    /\ \E enabled \in BOOLEAN :
          /\ enabled # viewState.autoScrollEnabled
          /\ Commit([Begin(World) EXCEPT !.viewState = enableAutoScroll(@, enabled)],
                    "enableAutoScroll", rendererCells)
    /\ UNCHANGED <<instance, concVars>>

\* DataProcessor::getPublishedCellsSnapshot
getPublishedCellsSnapshot(w) == w.m_publishedCells

\* UnifiedGridRenderer::updateVisibleCells: take the latest snapshot, if any
RendererUpdateVisibleCells ==
    /\ LET snapshot == getPublishedCellsSnapshot(World)
       IN Commit(Begin(World), "rendererUpdateVisibleCells",
                 IF snapshot # NoHandle THEN snapshot ELSE rendererCells)
    /\ UNCHANGED <<instance, concVars>>

\* the renderer and its processor are destroyed and a new pair is created;
\* the function-local static lastBucket outlives them
NewInstance ==
    /\ instance < MaxInstances
    /\ instance' = instance + 1
    /\ Commit(FreshWorld, "constructor", NoHandle)
    /\ UNCHANGED concVars

Next ==
    \/ AdvanceClock
    \/ SetGridViewState
    \/ StartProcessing
    \/ OnTradeReceived
    \/ OnOrderBookUpdated
    \/ CaptureOrderBookSnapshot
    \/ UpdateVisibleCells
    \/ ClearData
    \/ StopProcessing
    \/ OnViewChanged
    \/ EnableAutoScroll

Spec == Init /\ [][Next]_vars

\* a book of either kind arrives from the feed
OnOrderBookChanged ==
    /\ \E id \in BookIds :
          Commit(onOrderBookUpdated(Begin(World), OrderBook(id, EventTime)),
                 "onOrderBookUpdated", rendererCells)
    /\ UNCHANGED <<instance, concVars>>

\* the 100 ms sampler over the life of successive processor instances
NextSampler ==
    \/ AdvanceClock
    \/ StartProcessing
    \/ OnOrderBookChanged
    \/ CaptureOrderBookSnapshot
    \/ ClearData
    \/ StopProcessing
    \/ NewInstance

SpecSampler == Init /\ [][NextSampler]_vars

\* producer and consumer of the published snapshot
NextSnapshot ==
    \/ AdvanceClock
    \/ SetGridViewState
    \/ StartProcessing
    \/ OnOrderBookUpdated
    \/ CaptureOrderBookSnapshot
    \/ UpdateVisibleCells
    \/ ClearData
    \/ StopProcessing
    \/ RendererUpdateVisibleCells

SpecSnapshot == Init /\ [][NextSnapshot]_vars

\* every ingestion path of the processor, with clear and shutdown, within
\* one sampling bucket
NextIngest ==
    \/ SetGridViewState
    \/ SetDataCache
    \/ StartProcessing
    \/ OnTradeReceived
    \/ OnOrderBookUpdated
    \/ OnLiveOrderBookUpdated
    \/ CaptureOrderBookSnapshot
    \/ UpdateVisibleCells
    \/ ClearData
    \/ StopProcessing

SpecIngest == Init /\ [][NextIngest]_vars

\* the pass under user-driven viewport and timeframe changes, within one
\* sampling bucket
NextViewport ==
    \/ SetGridViewState
    \/ StartProcessing
    \/ OnOrderBookUpdated
    \/ CaptureOrderBookSnapshot
    \/ UpdateVisibleCells
    \/ OnViewChanged
    \/ EnableAutoScroll
    \/ SetTimeframe

SpecViewport == Init /\ [][NextViewport]_vars

\* dense books of the banding runs, within one sampling bucket: no quantity, one level per side far from
\* the mid, two levels per side far from the mid
BandBooks ==
    {LiveBooks["empty"], LiveBooks["B"],
     DenseBook(50, 50, <<1, 2, 0, 0, 0, 0>>, <<0, 0, 0, 0, 3, 1>>)}

\* m_bandMode with m_bandValue in thousandths: for each mode a band narrower
\* than a tick and one wider than the book
BandSettings ==
    {<<"FixedDollar", 10>>, <<"FixedDollar", 200000>>,
     <<"PercentMid", 10>>, <<"PercentMid", 1000>>,
     <<"Ticks", 1000>>, <<"Ticks", 5000>>}

\* onLiveOrderBookUpdated under the band settings left by setBandMode and
\* setBandValue and either setting of the dense ingestion flag
OnLiveOrderBookUpdatedBanded ==
    /\ \E lb \in BandBooks, dense \in BOOLEAN, setting \in BandSettings :
          Commit(onLiveOrderBookUpdatedWith(Begin(World), lb, dense, setting[1],
                                            setting[2]),
                 "onLiveOrderBookUpdated", rendererCells)
    /\ UNCHANGED <<instance, concVars>>

NextBand ==
    \/ SetGridViewState
    \/ SetDataCache
    \/ OnTradeReceived
    \/ OnLiveOrderBookUpdatedBanded
    \/ StopProcessing

SpecBand == Init /\ [][NextBand]_vars

\* onLiveOrderBookUpdated taking the sparse path: dense ingestion off, the
\* default band settings
OnLiveOrderBookUpdatedSparse ==
    /\ \E id \in LiveBookIds :
          Commit(onLiveOrderBookUpdatedWith(Begin(World), LiveBooks[id], FALSE,
                                            m_bandMode, m_bandValue),
                 "onLiveOrderBookUpdated", rendererCells)
    /\ UNCHANGED <<instance, concVars>>

\* the sampler's ticks interleaved with sparse live updates as time passes
NextFeed ==
    \/ SetGridViewState
    \/ SetDataCache
    \/ StartProcessing
    \/ OnLiveOrderBookUpdatedSparse
    \/ CaptureOrderBookSnapshot
    \/ AdvanceClock

SpecFeed == Init /\ [][NextFeed]_vars

-----------------------------------------------------------------------------
(* SpecConc: the handlers split at their lock operations.  The worker       *)
(* thread runs the slots of the processor; the GUI thread calls clearData   *)
(* and stopProcessing directly; the owner thread destroys the processor     *)
(* (stopProcessing from the destructor); the render thread reads the        *)
(* published snapshot.                                                      *)

dataVars ==
    <<now, lastBucket, viewState, engineSnaps, m_viewState, m_dataCache,
      m_shuttingDown, m_timerActive, m_connected, m_latestOrderBook,
      m_hasValidOrderBook, m_visibleCells, m_processedTimeRanges,
      m_lastProcessedTime, m_lastViewportVersion, m_currentTimeframe_ms,
      m_manualTimeframeSet, m_manualTimeframeTimer, m_publishedCells, heap,
      rendererCells, lastOp, signals, fed, pass, stopWins>>

\* positions at which a thread waits for a mutex
WaitsData == {"trade_lockD", "book_lockD", "cap_lockD", "live_lockD", "clr_lockD",
              "get_lockD"}
WaitsSnapshot == {"pub_lockS", "clr_lockS", "get_lockS"}

\* the position inside the critical section a lock_guard opens
Acquired ==
    [trade_lockD |-> "trade_cs", book_lockD |-> "book_cs", cap_lockD |-> "cap_cs",
     live_lockD |-> "live_cs", clr_lockD |-> "clr_cs1", get_lockD |-> "get_cs",
     pub_lockS |-> "pub_cs", clr_lockS |-> "clr_cs2", get_lockS |-> "get_cs"]

\* a step sees the fields as they are and reports only what it emits itself
StepWorld == [World EXCEPT !.signals = <<>>, !.fed = <<>>]

Goto(t, label) == pc' = [pc EXCEPT ![t] = label]

Release(mutex, t) == IF mutex = t THEN None ELSE mutex

\* std::lock_guard<std::mutex> lock(m_dataMutex)
AcquireData ==
    /\ \E t \in Threads :
          /\ pc[t] \in WaitsData
          /\ m_dataMutex = None
          /\ m_dataMutex' = t
          /\ Goto(t, Acquired[pc[t]])
    /\ UNCHANGED <<dataVars, instance, ugr, m_snapshotMutex, local>>

\* std::lock_guard<std::mutex> snapLock(m_snapshotMutex)
AcquireSnapshot ==
    /\ \E t \in Threads :
          /\ pc[t] \in WaitsSnapshot
          /\ m_snapshotMutex = None
          /\ m_snapshotMutex' = t
          /\ Goto(t, Acquired[pc[t]])
    /\ UNCHANGED <<dataVars, instance, ugr, m_dataMutex, local>>

\* the processor after UnifiedGridRenderer::init: view state and data cache
\* set, the queued startProcessing delivered; view and renderer are the view
\* state and the renderer's fields at that point
AfterRendererInit(view, renderer) ==
    /\ now = ClockStart
    /\ lastBucket = 0
    /\ instance = 1
    /\ viewState = view
    /\ engineSnaps = {}
    /\ m_viewState = TRUE
    /\ m_dataCache = TRUE
    /\ m_shuttingDown = FALSE
    /\ m_timerActive = startProcessing(FreshWorld).m_timerActive
    /\ m_connected = TRUE
    /\ m_latestOrderBook = NoBook
    /\ m_hasValidOrderBook = FALSE
    /\ m_visibleCells = <<>>
    /\ m_processedTimeRanges = {}
    /\ m_lastProcessedTime = 0
    /\ m_lastViewportVersion = 0
    /\ m_currentTimeframe_ms = DefaultTimeframeMs
    /\ m_manualTimeframeSet = FALSE
    /\ m_manualTimeframeTimer = -1
    /\ m_publishedCells = NoHandle
    /\ heap = <<>>
    /\ rendererCells = NoHandle
    /\ signals = <<>>
    /\ fed = <<>>
    /\ pass = NoPass
    /\ stopWins = 0
    /\ lastOp = "startProcessing"
    /\ pc = [t \in Threads |-> "idle"]
    /\ m_dataMutex = None
    /\ m_snapshotMutex = None
    /\ local = [t \in Threads |-> NoLocal]
    /\ ugr = renderer

InitConc == AfterRendererInit(InitialViewState(TRUE), InitialRenderer)

\* the threads that call clearData and stopProcessing directly
Callers == {"gui", "owner"}

TheTrade == Trade("X", 100, EventTime)
TheBook == OrderBook("A", EventTime)

\* onTradeReceived up to its lock_guard
StartOnTradeReceived ==
    /\ pc["worker"] = "idle" /\ ~m_shuttingDown
    /\ Goto("worker", "trade_lockD")
    /\ UNCHANGED <<dataVars, instance, ugr, m_dataMutex, m_snapshotMutex, local>>

TradeCritical ==
    /\ pc["worker"] = "trade_cs"
    /\ Commit(bootstrapFromTrade(StepWorld, TheTrade), lastOp, rendererCells)
    /\ m_dataMutex' = None
    /\ Goto("worker", "idle")
    /\ UNCHANGED <<instance, ugr, m_snapshotMutex, local>>

StartOnOrderBookUpdated ==
    /\ pc["worker"] = "idle" /\ ~m_shuttingDown
    /\ Goto("worker", "book_lockD")
    /\ UNCHANGED <<dataVars, instance, ugr, m_dataMutex, m_snapshotMutex, local>>

BookCritical ==
    /\ pc["worker"] = "book_cs"
    /\ Commit(bootstrapFromOrderBook(storeOrderBook(StepWorld, TheBook), TheBook),
              lastOp, rendererCells)
    /\ m_dataMutex' = None
    /\ Goto("worker", "pass")
    /\ UNCHANGED <<instance, ugr, m_snapshotMutex, local>>

\* captureOrderBookSnapshot up to its lock_guard
StartCapture ==
    /\ pc["worker"] = "idle" /\ m_timerActive /\ ~m_shuttingDown
    /\ Goto("worker", "cap_lockD")
    /\ UNCHANGED <<dataVars, instance, ugr, m_dataMutex, m_snapshotMutex, local>>

\* book_copy = m_latestOrderBook, under the data mutex
CaptureCritical ==
    /\ pc["worker"] = "cap_cs"
    /\ local' = [local EXCEPT !["worker"].book_copy = m_latestOrderBook]
    /\ m_dataMutex' = None
    /\ Goto("worker", "cap_feed")
    /\ UNCHANGED <<dataVars, instance, ugr, m_snapshotMutex>>

CaptureFeed ==
    /\ pc["worker"] = "cap_feed"
    /\ IF local["worker"].book_copy # NoBook /\ sampleDue(World)
       THEN /\ Commit(sampleBuckets(StepWorld, local["worker"].book_copy),
                      lastOp, rendererCells)
            /\ Goto("worker", "pass")
       ELSE /\ Goto("worker", "idle")
            /\ UNCHANGED dataVars
    /\ UNCHANGED <<instance, ugr, m_dataMutex, m_snapshotMutex, local>>

\* onLiveOrderBookUpdated, dense path, up to its lock_guard
StartOnLiveOrderBookUpdated ==
    /\ pc["worker"] = "idle" /\ ~m_shuttingDown /\ m_dataCache
    /\ Commit(feedDense(StepWorld, captureDenseNonZero(LiveBooks.A, kMaxPerSide)),
              lastOp, rendererCells)
    /\ Goto("worker", "live_lockD")
    /\ UNCHANGED <<instance, ugr, m_dataMutex, m_snapshotMutex, local>>

LiveCritical ==
    /\ pc["worker"] = "live_cs"
    /\ Commit([StepWorld EXCEPT !.m_hasValidOrderBook = TRUE],
              lastOp, rendererCells)
    /\ m_dataMutex' = None
    /\ Goto("worker", "pass")
    /\ UNCHANGED <<instance, ugr, m_snapshotMutex, local>>

\* QMetaObject::invokeMethod(processor, "updateVisibleCells", QueuedConnection)
StartUpdateVisibleCells ==
    /\ pc["worker"] = "idle"
    /\ Goto("worker", "pass")
    /\ UNCHANGED <<dataVars, instance, ugr, m_dataMutex, m_snapshotMutex, local>>

\* the locals of a pass are gone once the publish decision is taken
endPass(w) == [w EXCEPT !.pass = NoPass, !.visibleSlices = <<>>]

\* updateVisibleCells up to the lock_guard of its publish block
PassCompute ==
    /\ pc["worker"] = "pass"
    /\ IF passEnabled(World)
       THEN /\ Commit(endPass(computePass(StepWorld)), lastOp, rendererCells)
            /\ Goto("worker", IF computePass(StepWorld).pass.changed
                              THEN "pub_lockS" ELSE "idle")
       ELSE /\ Goto("worker", "idle")
            /\ UNCHANGED dataVars
    /\ UNCHANGED <<instance, ugr, m_dataMutex, m_snapshotMutex, local>>

PublishCritical ==
    /\ pc["worker"] = "pub_cs"
    /\ Commit(publish(StepWorld), lastOp, rendererCells)
    /\ m_snapshotMutex' = None
    /\ Goto("worker", "pub_emit")
    /\ UNCHANGED <<instance, ugr, m_dataMutex, local>>

PublishEmit ==
    /\ pc["worker"] = "pub_emit"
    /\ Commit(emit(StepWorld, "dataUpdated"), lastOp, rendererCells)
    /\ Goto("worker", "idle")
    /\ UNCHANGED <<instance, ugr, m_dataMutex, m_snapshotMutex, local>>

\* UnifiedGridRenderer::clearData calls the processor's clearData directly
StartClearData ==
    /\ pc["gui"] = "idle"
    /\ Goto("gui", "clr_lockD")
    /\ UNCHANGED <<dataVars, instance, ugr, m_dataMutex, m_snapshotMutex, local>>

\* clearData under the data mutex, up to its inner lock_guard
ClearLocked ==
    /\ \E t \in Callers :
          /\ pc[t] = "clr_cs1"
          /\ \E bumps \in BOOLEAN :
                /\ bumps => viewState.viewportVersion < MaxResetVersion
                /\ Commit(resetView(forgetOrderBook(StepWorld), bumps), lastOp, rendererCells)
          /\ Goto(t, "clr_lockS")
    /\ UNCHANGED <<instance, ugr, m_dataMutex, m_snapshotMutex, local>>

ClearSnapshotCritical ==
    /\ \E t \in Callers :
          /\ pc[t] = "clr_cs2"
          /\ Commit(resetPublished(StepWorld), lastOp, rendererCells)
          /\ m_snapshotMutex' = None
          /\ Goto(t, "clr_emit")
    /\ UNCHANGED <<instance, ugr, m_dataMutex, local>>

\* emit dataUpdated(), then the outer lock_guard goes out of scope
ClearEmit ==
    /\ \E t \in Callers :
          /\ pc[t] = "clr_emit"
          /\ Commit(emit(StepWorld, "dataUpdated"), lastOp, rendererCells)
          /\ m_dataMutex' = None
          /\ Goto(t, "idle")
    /\ UNCHANGED <<instance, ugr, m_snapshotMutex, local>>

\* stopProcessing: the compare-exchange on m_shuttingDown
StartStopProcessing ==
    /\ \E t \in Callers :
          /\ pc[t] = "idle"
          /\ IF winsShutdown(World)
             THEN /\ Commit(markShuttingDown(StepWorld), lastOp, rendererCells)
                  /\ Goto(t, "stop_teardown")
                  /\ local' = [local EXCEPT ![t].casFailed = FALSE]
             ELSE /\ UNCHANGED <<dataVars, pc>>
                  /\ local' = [local EXCEPT ![t].casFailed = TRUE]
    /\ UNCHANGED <<instance, ugr, m_dataMutex, m_snapshotMutex>>

\* the winner stops the timer, disconnects and goes on to clearData
StopTeardown ==
    /\ \E t \in Callers :
          /\ pc[t] = "stop_teardown"
          /\ Commit(teardown(StepWorld), lastOp, rendererCells)
          /\ Goto(t, "clr_lockD")
    /\ UNCHANGED <<instance, ugr, m_dataMutex, m_snapshotMutex, local>>

\* (variant) the reader goes through the data mutex
getPublishedCellsSnapshotViaData(t) == "get_lockD"

\* the lock_guard of getPublishedCellsSnapshot
getPublishedCellsSnapshotEntry(t) == "get_lockS"

StartRead ==
    /\ pc["render"] = "idle"
    /\ Goto("render", getPublishedCellsSnapshotEntry("render"))
    /\ UNCHANGED <<dataVars, instance, ugr, m_dataMutex, m_snapshotMutex, local>>

\* return m_publishedCells; the renderer keeps a non-null snapshot
ReadCritical ==
    /\ pc["render"] = "get_cs"
    /\ Commit(StepWorld, lastOp,
              IF getPublishedCellsSnapshot(World) # NoHandle
              THEN getPublishedCellsSnapshot(World)
              ELSE rendererCells)
    /\ m_snapshotMutex' = Release(m_snapshotMutex, "render")
    /\ m_dataMutex' = Release(m_dataMutex, "render")
    /\ Goto("render", "idle")
    /\ UNCHANGED <<instance, ugr, local>>

NextConc ==
    \/ AcquireData
    \/ AcquireSnapshot
    \/ StartOnTradeReceived
    \/ TradeCritical
    \/ StartOnOrderBookUpdated
    \/ BookCritical
    \/ StartCapture
    \/ CaptureCritical
    \/ CaptureFeed
    \/ StartOnLiveOrderBookUpdated
    \/ LiveCritical
    \/ StartUpdateVisibleCells
    \/ PassCompute
    \/ PublishCritical
    \/ PublishEmit
    \/ StartClearData
    \/ ClearLocked
    \/ ClearSnapshotCritical
    \/ ClearEmit
    \/ StartStopProcessing
    \/ StopTeardown
    \/ StartRead
    \/ ReadCritical

SpecConc == InitConc /\ [][NextConc]_vars

-----------------------------------------------------------------------------
(* UnifiedGridRenderer: the four dirty flags, the paint cycle and the pan   *)
(* resync.  The slots of the processor run on the worker thread and their   *)
(* dataUpdated signals reach the GUI thread through a queued connection;    *)
(* updatePaintNode runs on the render thread while the GUI thread is        *)
(* blocked, so a paint cycle is one step.                                   *)

MaxQueued == 2

\* drag distances of an interactive pan
PanOffsets == {5, 9}

DirtyFlags ==
    {"m_geometryDirty", "m_appendPending", "m_materialDirty", "m_transformDirty"}

\* what a paint cycle works on
Frame ==
    [r |-> ugr, held |-> rendererCells, published |-> m_publishedCells,
     cells |-> heap, viewStateSet |-> m_viewState,
     pan |-> viewState.panVisualOffset]

\* a handler of the renderer starts with nothing observed
observe(r) == [r EXCEPT !.cycle = NoCycle, !.panCleared = FALSE]

\* signals emitted on the worker thread are posted to the GUI thread
posted(r, sigs) ==
    [observe(r) EXCEPT !.queued =
         @ + Cardinality({i \in DOMAIN sigs : sigs[i] = "dataUpdated"})]

\* std::atomic<bool>::exchange(false)
exchange(f, flag) ==
    [f EXCEPT !.r[flag] = FALSE, !.r.cycle.exchanged = @ \cup {flag}]

\* (variant) the held handle always follows the published one
consumeSnapshotAlways(f) ==
    [f EXCEPT !.held = f.published, !.r.cycle.reads = @ + 1]

\* UnifiedGridRenderer::updateVisibleCells: take the latest snapshot, if any
consumeSnapshot(f) ==
    [f EXCEPT !.held = IF f.published # NoHandle THEN f.published ELSE @,
              !.r.cycle.reads = @ + 1]

\* GridSceneNode::updateLayeredContent over the held cells
updateLayeredContent(f) ==
    [f EXCEPT !.r.content = IF f.held = NoHandle THEN <<>> ELSE f.cells[f.held],
              !.r.cycle.rebuilds = @ + 1]

rebuild(f, stage) ==
    [updateLayeredContent(consumeSnapshot(f)) EXCEPT
         !.r.cycle.stages = Append(@, stage)]

beginCycle(f) ==
    [f EXCEPT !.r.cycle = [NoCycle EXCEPT !.ran = TRUE,
                                          !.isNewNode = ~f.r.sceneNode],
              !.r.panCleared = FALSE,
              !.r.sceneNode = TRUE]

\* if (m_geometryDirty.exchange(false) || isNewNode) ... else if
\* (m_appendPending.exchange(false)) ...
geometryOrAppendStage(f) ==
    IF f.r.m_geometryDirty \/ f.r.cycle.isNewNode
    THEN rebuild(exchange(f, "m_geometryDirty"), "geometry")
    ELSE IF f.r.m_appendPending
         THEN rebuild(exchange(exchange(f, "m_geometryDirty"),
                               "m_appendPending"), "append")
         ELSE exchange(exchange(f, "m_geometryDirty"), "m_appendPending")

\* an independent if after the geometry/append chain
materialStageAlways(f) == rebuild(exchange(f, "m_materialDirty"), "material")

materialStage(f) ==
    IF f.r.m_materialDirty
    THEN rebuild(exchange(f, "m_materialDirty"), "material")
    ELSE exchange(f, "m_materialDirty")

transformStage(f) ==
    IF f.r.m_transformDirty \/ f.r.cycle.isNewNode
    THEN [exchange(f, "m_transformDirty") EXCEPT
              !.r.transform = IF f.viewStateSet THEN f.pan ELSE 0,
              !.r.cycle.stages = Append(@, "transform")]
    ELSE exchange(f, "m_transformDirty")

\* (variant) the early return of an unsized item also clears the flags
updatePaintNodeClearingUnsized(f, sized) ==
    IF ~sized
    THEN [f EXCEPT !.r = [observe(@) EXCEPT !.m_geometryDirty = FALSE,
                                            !.m_appendPending = FALSE,
                                            !.m_materialDirty = FALSE,
                                            !.m_transformDirty = FALSE]]
    ELSE transformStage(materialStage(geometryOrAppendStage(beginCycle(f))))

\* UnifiedGridRenderer::updatePaintNode; sized is width() > 0 && height() > 0
updatePaintNode(f, sized) ==
    IF ~sized
    THEN [f EXCEPT !.r = observe(@)]
    ELSE transformStage(materialStage(geometryOrAppendStage(beginCycle(f))))

UpdatePaintNode ==
    /\ \E sized \in BOOLEAN :
          /\ Commit(Begin(World), "updatePaintNode",
                    updatePaintNode(Frame, sized).held)
          /\ ugr' = updatePaintNode(Frame, sized).r
    /\ UNCHANGED <<instance, pc, m_dataMutex, m_snapshotMutex, local>>

\* (variant) the handler does not set the append flag
onDataUpdatedNoAppend(r, viewStateSet) ==
    [observe(r) EXCEPT
         !.panCleared = r.m_panSyncPending /\ viewStateSet,
         !.m_panSyncPending = @ /\ ~viewStateSet,
         !.m_transformDirty = @ \/ (r.m_panSyncPending /\ viewStateSet),
         !.queued = @ - 1]

\* the lambda connected to DataProcessor::dataUpdated
onDataUpdatedKeepingMarker(r, viewStateSet) ==
    [observe(r) EXCEPT
         !.panCleared = r.m_panSyncPending /\ viewStateSet,
         !.m_transformDirty = @ \/ (r.m_panSyncPending /\ viewStateSet),
         !.m_appendPending = TRUE,
         !.queued = @ - 1]

onDataUpdated(r, viewStateSet) ==
    [observe(r) EXCEPT
         !.panCleared = r.m_panSyncPending /\ viewStateSet,
         !.m_panSyncPending = @ /\ ~viewStateSet,
         !.m_transformDirty = @ \/ (r.m_panSyncPending /\ viewStateSet),
         !.m_appendPending = TRUE,
         !.queued = @ - 1]

OnDataUpdated ==
    /\ ugr.queued > 0
    /\ Commit([Begin(World) EXCEPT !.viewState =
                   IF ugr.m_panSyncPending /\ m_viewState
                   THEN clearPanVisualOffset(@) ELSE @],
              "onDataUpdated", rendererCells)
    /\ ugr' = onDataUpdated(ugr, m_viewState)
    /\ UNCHANGED <<instance, pc, m_dataMutex, m_snapshotMutex, local>>

MousePressEvent ==
    /\ m_viewState /\ ~viewState.panning
    /\ Commit([Begin(World) EXCEPT !.viewState = handlePanStart(@)],
              "mousePressEvent", rendererCells)
    /\ ugr' = observe(ugr)
    /\ UNCHANGED <<instance, pc, m_dataMutex, m_snapshotMutex, local>>

MouseMoveEvent ==
    /\ m_viewState
    /\ \E offset \in PanOffsets :
          Commit([Begin(World) EXCEPT !.viewState = handlePanMove(@, offset)],
                 "mouseMoveEvent", rendererCells)
    /\ ugr' = [observe(ugr) EXCEPT !.m_transformDirty = TRUE]
    /\ UNCHANGED <<instance, pc, m_dataMutex, m_snapshotMutex, local>>

\* the queued updateVisibleCells it requests is a later WorkerUpdateVisibleCells
mouseReleaseEvent(r) ==
    [observe(r) EXCEPT !.m_panSyncPending = TRUE, !.m_transformDirty = TRUE]

MouseReleaseEvent ==
    /\ m_viewState
    /\ Commit([Begin(World) EXCEPT !.viewState = handlePanEnd(@)],
              "mouseReleaseEvent", rendererCells)
    /\ ugr' = mouseReleaseEvent(ugr)
    /\ UNCHANGED <<instance, pc, m_dataMutex, m_snapshotMutex, local>>

\* setRenderMode with a mode other than the current one
SetRenderMode ==
    /\ Commit(Begin(World), "setRenderMode", rendererCells)
    /\ ugr' = [observe(ugr) EXCEPT !.m_geometryDirty = TRUE]
    /\ UNCHANGED <<instance, pc, m_dataMutex, m_snapshotMutex, local>>

\* setIntensityScale with a scale other than the current one
SetIntensityScale ==
    /\ Commit(Begin(World), "setIntensityScale", rendererCells)
    /\ ugr' = [observe(ugr) EXCEPT !.m_materialDirty = TRUE]
    /\ UNCHANGED <<instance, pc, m_dataMutex, m_snapshotMutex, local>>

\* slots of the processor on the worker thread, their signals posted
WorkerOnOrderBookUpdated ==
    /\ ugr.queued < MaxQueued
    /\ Commit(onOrderBookUpdated(Begin(World), OrderBook("A", EventTime)),
              "onOrderBookUpdated", rendererCells)
    /\ ugr' = posted(ugr, signals')
    /\ UNCHANGED <<instance, pc, m_dataMutex, m_snapshotMutex, local>>

WorkerCaptureOrderBookSnapshot ==
    /\ ugr.queued < MaxQueued
    /\ m_timerActive
    /\ Commit(captureOrderBookSnapshot(Begin(World)),
              "captureOrderBookSnapshot", rendererCells)
    /\ ugr' = posted(ugr, signals')
    /\ UNCHANGED <<instance, pc, m_dataMutex, m_snapshotMutex, local>>

WorkerUpdateVisibleCells ==
    /\ ugr.queued < MaxQueued
    /\ Commit(updateVisibleCells(Begin(World)), "updateVisibleCells",
              rendererCells)
    /\ ugr' = posted(ugr, signals')
    /\ UNCHANGED <<instance, pc, m_dataMutex, m_snapshotMutex, local>>

\* UnifiedGridRenderer::clearData
RendererClearData ==
    /\ ugr.queued < MaxQueued
    /\ Commit(clearData(Begin(World), FALSE), "rendererClearData", NoHandle)
    /\ ugr' = [posted(ugr, signals') EXCEPT !.m_geometryDirty = TRUE]
    /\ UNCHANGED <<instance, pc, m_dataMutex, m_snapshotMutex, local>>

NextRender ==
    \/ WorkerOnOrderBookUpdated
    \/ WorkerCaptureOrderBookSnapshot
    \/ WorkerUpdateVisibleCells
    \/ RendererClearData
    \/ OnDataUpdated
    \/ MousePressEvent
    \/ MouseMoveEvent
    \/ MouseReleaseEvent
    \/ SetRenderMode
    \/ SetIntensityScale
    \/ UpdatePaintNode

\* from the state after UnifiedGridRenderer::init
SpecRender == InitConc /\ [][NextRender]_vars

\* the GUI thread's event loop handles every queued call posted to it
SpecRenderLive == SpecRender /\ WF_vars(OnDataUpdated)

\* DataProcessor::clearData called on the processor alone, as by
\* DataProcessor::stopProcessing
WorkerClearData ==
    /\ ugr.queued < MaxQueued
    /\ \E bumps \in BOOLEAN :
          /\ bumps => viewState.viewportVersion < MaxVersion
          /\ Commit(clearData(Begin(World), bumps), "clearData", rendererCells)
    /\ ugr' = posted(ugr, signals')
    /\ UNCHANGED <<instance, pc, m_dataMutex, m_snapshotMutex, local>>

\* (variant) registering a timeframe also sets the processor's override
addTimeframeOverriding(w, timeframe_ms) == setTimeframe(w, timeframe_ms)

\* DataProcessor::addTimeframe forwards to the engine and touches no field
\* of the processor
addTimeframe(w, timeframe_ms) == w

\* UnifiedGridRenderer::setTimeframe, the renderer's own fields
rendererSetTimeframe(r, timeframe_ms) ==
    IF r.m_currentTimeframe_ms # timeframe_ms
    THEN [observe(r) EXCEPT !.m_currentTimeframe_ms = timeframe_ms,
                            !.m_manualTimeframeSet = TRUE,
                            !.registered = @ \cup {timeframe_ms},
                            !.m_geometryDirty = TRUE,
                            !.requested = timeframe_ms]
    ELSE [observe(r) EXCEPT !.requested = timeframe_ms]

RendererSetTimeframe ==
    /\ \E tf \in Timeframes :
          /\ Commit(IF ugr.m_currentTimeframe_ms # tf
                    THEN addTimeframe(Begin(World), tf)
                    ELSE Begin(World),
                    "rendererSetTimeframe", rendererCells)
          /\ ugr' = rendererSetTimeframe(ugr, tf)
    /\ UNCHANGED <<instance, pc, m_dataMutex, m_snapshotMutex, local>>

\* DataProcessor::setTimeframe called on the processor itself
WorkerSetTimeframe ==
    /\ ugr.queued < MaxQueued
    /\ \E tf \in Timeframes :
          Commit(setTimeframe(Begin(World), tf), "setTimeframe", rendererCells)
    /\ ugr' = posted(ugr, signals')
    /\ UNCHANGED <<instance, pc, m_dataMutex, m_snapshotMutex, local>>

NextTimeframe ==
    \/ WorkerOnOrderBookUpdated
    \/ WorkerUpdateVisibleCells
    \/ RendererSetTimeframe
    \/ WorkerSetTimeframe
    \/ OnDataUpdated
    \/ UpdatePaintNode

\* timeframe requests at the renderer and at the processor
SpecTimeframe == InitConc /\ [][NextTimeframe]_vars

NextConsume ==
    \/ WorkerOnOrderBookUpdated
    \/ WorkerUpdateVisibleCells
    \/ WorkerClearData
    \/ RendererClearData
    \/ OnDataUpdated
    \/ UpdatePaintNode

\* the renderer's handle against publications and both ways of clearing
SpecConsume == InitConc /\ [][NextConsume]_vars

-----------------------------------------------------------------------------
(* UnifiedGridRenderer: the retained trades *)

MaxRecentTrades == 1000
EvictedTrades == 100

\* the trades received after the initial state of SpecTrades
MaxArrivals == 3

\* (variant) the oldest entries are erased as soon as the capacity is reached
retainTradeAtCapacity(trades, trade) ==
    IF Len(trades) + 1 >= MaxRecentTrades
    THEN SubSeq(Append(trades, trade), EvictedTrades + 1, Len(trades) + 1)
    ELSE Append(trades, trade)

\* m_recentTrades after push_back and the erase of the oldest entries
retainTrade(trades, trade) ==
    IF Len(trades) + 1 > MaxRecentTrades
    THEN SubSeq(Append(trades, trade), EvictedTrades + 1, Len(trades) + 1)
    ELSE Append(trades, trade)

\* UnifiedGridRenderer::onTradeReceived: the trade is retained, then the
\* processor's onTradeReceived is posted with it (m_dataProcessor is set by
\* init)
rendererOnTradeReceived(r, trade) ==
    [observe(r) EXCEPT !.m_recentTrades = retainTrade(@, trade),
                       !.tradeCalls = Append(@, trade),
                       !.arrivals = @ + 1]

\* the n-th trade of the feed: trades are stamped in arrival order
ArrivedTrade(n, id, size) ==
    [Trade(id, 100, EventTime + n) EXCEPT !.size = size]

\* a well-formed trade, one without instrument id, one of size zero
TradeKinds == {<<"X", 1>>, <<"", 1>>, <<"X", 0>>}

NextStamp(trades) ==
    IF trades = <<>> THEN 1
    ELSE trades[Len(trades)].timestamp - EventTime + 1

RendererOnTradeReceived ==
    /\ ugr.arrivals < MaxArrivals
    /\ Commit(Begin(World), "rendererOnTradeReceived", rendererCells)
    /\ \E kind \in TradeKinds :
          ugr' = rendererOnTradeReceived(
                     ugr, ArrivedTrade(NextStamp(ugr.m_recentTrades),
                                       kind[1], kind[2]))
    /\ UNCHANGED <<instance, pc, m_dataMutex, m_snapshotMutex, local>>

\* the processor's thread handles the oldest posted onTradeReceived
WorkerOnTradeReceived ==
    /\ ugr.tradeCalls # <<>>
    /\ Commit(onTradeReceived(Begin(World), Head(ugr.tradeCalls)),
              "onTradeReceived", rendererCells)
    /\ ugr' = [observe(ugr) EXCEPT !.tradeCalls = Tail(@)]
    /\ UNCHANGED <<instance, pc, m_dataMutex, m_snapshotMutex, local>>

\* the lengths of m_recentTrades the runs start from
RetainedAtStart == {0, MaxRecentTrades - 2, MaxRecentTrades - 1, MaxRecentTrades}

\* the renderer and the view after n well-formed trades were received and
\* handled: the first one initialised the viewport
RendererAfterTrades(n) ==
    [InitialRenderer EXCEPT
         !.m_recentTrades = [i \in 1..n |-> ArrivedTrade(i, "X", 1)]]

ViewAfterTrades(n) ==
    IF n = 0 THEN InitialViewState(TRUE)
    ELSE onTradeReceived([FreshWorld EXCEPT !.m_viewState = TRUE,
                                            !.viewState = InitialViewState(TRUE)],
                         ArrivedTrade(1, "X", 1)).viewState

InitTrades ==
    \E n \in RetainedAtStart :
        AfterRendererInit(ViewAfterTrades(n), RendererAfterTrades(n))

NextTrades == RendererOnTradeReceived \/ WorkerOnTradeReceived

SpecTrades == InitTrades /\ [][NextTrades]_vars

-----------------------------------------------------------------------------
(* Properties of the aggregation pass (Spec) *)

CellRange(cell) == <<cell.timeStart_ms, cell.timeEnd_ms>>

CellKey(cell) == <<cell.timeStart_ms, cell.timeEnd_ms, cell.priceMin, cell.isBid>>

\* no (time range, price, side) occurs twice in a cell list
NoCellTwice(cells) ==
    \A i, j \in 1..Len(cells) : CellKey(cells[i]) = CellKey(cells[j]) => i = j

Emitted(sig) == sig \in Range(signals)

\* C1: in a pass that is not a full rebuild the working list only grows at
\* its end, no appended cell belongs to a time range that was already in the
\* processed-range set when the pass began, and no (range, price, side)
\* occurs twice in the list: a processed range contributes cells once.
C1_Step ==
    (pass'.ran /\ ~pass'.rebuild) =>
        /\ Len(m_visibleCells') >= Len(m_visibleCells)
        /\ SubSeq(m_visibleCells', 1, Len(m_visibleCells)) = m_visibleCells
        /\ \A i \in (Len(m_visibleCells) + 1)..Len(m_visibleCells') :
              CellRange(m_visibleCells'[i]) \notin m_processedTimeRanges
        /\ NoCellTwice(m_visibleCells')

C1_IncrementalCorrectness == [][C1_Step]_vars

\* C1 witness: a sampler tick fed the engine and ran an append pass over
\* slices that were all processed before (the content of a slice changed
\* under its old time range), and the working list kept its cells.
C1_Witness ==
    /\ pass.ran /\ ~pass.rebuild /\ ~pass.changed
    /\ pass.ranges # <<>> /\ fed # <<>>
    /\ m_visibleCells # <<>>

\* C2: a pass that finds the viewport version changed ends with the
\* last-processed version equal to the version it read at its start, the
\* processed-range set equal to the ranges of the slices returned in the
\* pass, and a working list made of cells of those slices only, each once.
C2_Step ==
    (pass'.ran /\ pass'.viewportChanged) =>
        /\ m_lastViewportVersion' = pass'.currentViewportVersion
        /\ m_processedTimeRanges' = Range(pass'.ranges)
        /\ \A i \in 1..Len(m_visibleCells') :
              CellRange(m_visibleCells'[i]) \in Range(pass'.ranges)
        /\ NoCellTwice(m_visibleCells')

C2_FullRebuildOnVersionChange == [][C2_Step]_vars

\* C2 witness: a version-change rebuild that produced cells
C2_Witness ==
    /\ pass.ran /\ pass.viewportChanged
    /\ m_lastViewportVersion = pass.currentViewportVersion
    /\ m_visibleCells # <<>>

\* C3: a pass replaces the published snapshot by a copy of the working list
\* and emits dataUpdated exactly when the viewport version changed or the
\* working list changed size during slice processing; any other pass leaves
\* the published handle alone and emits no dataUpdated.
C3_Step ==
    pass'.ran =>
        IF pass'.viewportChanged \/ Len(m_visibleCells') # pass'.beforeSize
        THEN /\ m_publishedCells' # m_publishedCells
             /\ m_publishedCells' # NoHandle
             /\ heap'[m_publishedCells'] = m_visibleCells'
             /\ Emitted("dataUpdated")'
        ELSE /\ m_publishedCells' = m_publishedCells
             /\ ~Emitted("dataUpdated")'

C3_PublishIffChanged == [][C3_Step]_vars

\* C3 witness: a pass that changed nothing and left a standing snapshot alone
C3_Witness ==
    /\ pass.ran /\ ~pass.changed /\ ~Emitted("dataUpdated")
    /\ m_publishedCells # NoHandle

\* C4: when a pass follows a pass with no handler in between, starts at the
\* viewport version the first one left and gets the same slice ranges, it
\* leaves the working list and the published snapshot as they were and emits
\* no dataUpdated.
C4_Step ==
    (/\ pass.ran /\ pass'.ran
     /\ lastOp' = "updateVisibleCells"
     /\ pass'.currentViewportVersion = viewState.viewportVersion
     /\ Range(pass'.ranges) = Range(pass.ranges)) =>
        /\ m_visibleCells' = m_visibleCells
        /\ m_publishedCells' = m_publishedCells
        /\ ~Emitted("dataUpdated")'

C4_IdempotentRebuild == [][C4_Step]_vars

-----------------------------------------------------------------------------
(* Properties of the snapshot hand-off (SpecSnapshot) *)

\* the handler of this step published a snapshot
Published == pass.ran /\ pass.changed

\* the handler of this step ran clearData
Cleared ==
    \/ lastOp = "clearData"
    \/ lastOp = "stopProcessing" /\ Emitted("dataUpdated")

\* C5: the cell sequence behind a snapshot handle never changes while any
\* holder keeps the handle, whatever the producer does, and a publish
\* installs a handle that did not exist before, holding a copy of the
\* working list.
C5_Step ==
    /\ \A h \in (DOMAIN heap) \cap (DOMAIN heap') : heap'[h] = heap[h]
    /\ (rendererCells # NoHandle /\ rendererCells' = rendererCells) =>
           /\ rendererCells \in DOMAIN heap'
           /\ heap'[rendererCells] = heap[rendererCells]
    /\ Published' =>
           /\ m_publishedCells' \notin DOMAIN heap
           /\ heap'[m_publishedCells'] = m_visibleCells'

C5_SnapshotImmutability == [][C5_Step]_vars

\* C5 witness: the renderer holds a superseded snapshot whose cells differ
\* from the cells of the snapshot published since
C5_Witness ==
    /\ rendererCells # NoHandle /\ m_publishedCells # NoHandle
    /\ rendererCells # m_publishedCells
    /\ heap[rendererCells] # heap[m_publishedCells]
    /\ heap[rendererCells] # <<>>

\* C6: the snapshot read is none after construction; a handler that clears
\* makes it none; a handler that publishes makes it the handle it installed;
\* any other step leaves it as it was.  Hence it is none exactly when nothing
\* was published since construction or since the last clearData.
C6_Step ==
    /\ Cleared' => getPublishedCellsSnapshot(World)' = NoHandle
    /\ Published' =>
           /\ getPublishedCellsSnapshot(World)' # NoHandle
           /\ getPublishedCellsSnapshot(World)' \notin DOMAIN heap
           /\ heap'[getPublishedCellsSnapshot(World)'] = m_visibleCells'
    /\ (~Cleared' /\ ~Published') =>
           getPublishedCellsSnapshot(World)' = getPublishedCellsSnapshot(World)

C6_Init == lastOp = "constructor" => getPublishedCellsSnapshot(World) = NoHandle

C6_SnapshotNoneIffUnpublished == C6_Init /\ [][C6_Step]_vars

\* C6 witness: a snapshot was published, clearData ran, and the read gives
\* none while the renderer still holds the old snapshot
C6_Witness ==
    /\ Cleared /\ getPublishedCellsSnapshot(World) = NoHandle
    /\ rendererCells # NoHandle

-----------------------------------------------------------------------------
(* Properties of the 100 ms sampler (SpecSampler) *)

currentBucket == (now \div BucketMs) * BucketMs

\* a sampling tick that gets past its entry checks
SamplingTick ==
    /\ lastOp' = "captureOrderBookSnapshot"
    /\ ~m_shuttingDown
    /\ m_latestOrderBook # NoBook

\* C8: a sampling tick with a known book whose current bucket lies k >= 1
\* buckets after the last sampled bucket feeds exactly k snapshots, stamped
\* lastBucket + 100, ..., currentBucket in this order, each carrying the
\* latest book, and moves the bucket clock to the current bucket; a tick in
\* the bucket of the last sample feeds nothing.
C8_Step ==
    (SamplingTick /\ lastBucket # 0) =>
        IF currentBucket > lastBucket
        THEN /\ fed' = [k \in 1..((currentBucket - lastBucket) \div BucketMs) |->
                           WithTimestamp(m_latestOrderBook, lastBucket + k * BucketMs)]
             /\ lastBucket' = currentBucket
        ELSE /\ fed' = <<>>
             /\ lastBucket' = lastBucket

C8_GapFilling == [][C8_Step]_vars

\* C8 witness: a tick that carried the book forward over a skipped bucket
C8_Witness ==
    /\ lastOp = "captureOrderBookSnapshot"
    /\ Len(fed) >= 2
    /\ fed[Len(fed)].timestamp = lastBucket
    /\ fed[1].timestamp = lastBucket - (Len(fed) - 1) * BucketMs

\* C9: the first sampling tick of an instance at which a book is known (its
\* engine has received no sample yet) feeds exactly one snapshot, stamped at
\* the current bucket boundary.
C9_Step ==
    (SamplingTick /\ engineSnaps = {}) =>
        fed' = <<WithTimestamp(m_latestOrderBook, currentBucket)>>

C9_PerInstanceBucketClock == [][C9_Step]_vars

-----------------------------------------------------------------------------
(* Properties of the locking discipline and of shutdown (SpecConc) *)

HoldsData(t) == m_dataMutex = t
HoldsSnapshot(t) == m_snapshotMutex = t

Waiting(t) == pc[t] \in WaitsData \cup WaitsSnapshot

\* the thread that holds the mutex t waits for, None when the mutex is free
BlockedBy(t) ==
    IF pc[t] \in WaitsData THEN m_dataMutex
    ELSE IF pc[t] \in WaitsSnapshot THEN m_snapshotMutex
    ELSE None

\* every thread of Z waits for a mutex held inside Z
DeadlockedSet(Z) == \A t \in Z : BlockedBy(t) \in Z

\* C7: no blocking between the two sides.  In every interleaving of the
\* producer operations, clearData, stopProcessing and consumer reads there is
\* no set of threads that wait for each other; the snapshot mutex is taken
\* alone or after the data mutex and never the reverse: a thread that holds
\* the snapshot mutex waits for nothing, a thread that holds the data mutex
\* waits at most for the snapshot mutex; and a consumer read neither waits for
\* nor holds the data mutex.
C7_NoBlocking ==
    /\ \A Z \in (SUBSET Threads) \ {{}} : ~DeadlockedSet(Z)
    /\ \A t \in Threads : HoldsSnapshot(t) => ~Waiting(t)
    /\ \A t \in Threads : HoldsData(t) => pc[t] \notin WaitsData
    /\ pc["render"] \notin WaitsData
    /\ ~HoldsData("render")

\* clearData holds the data mutex and waits for the snapshot mutex, which the
\* worker holds in its publish block, while a consumer read waits behind it
C7_Witness ==
    /\ pc["gui"] = "clr_lockS" /\ HoldsData("gui")
    /\ pc["worker"] = "pub_cs" /\ HoldsSnapshot("worker")
    /\ pc["render"] = "get_lockS"

C10_Step ==
    /\ m_shuttingDown => m_shuttingDown'
    /\ stopWins' >= stopWins
    /\ \A t \in Callers :
          \* the call that enters the teardown is the call that won the flag
          /\ (pc[t] # "stop_teardown" /\ pc'[t] = "stop_teardown")
                => /\ ~m_shuttingDown /\ m_shuttingDown'
                   /\ stopWins' = stopWins + 1
          \* the winner stops the timer, disconnects, and goes on to clearData
          /\ (pc[t] = "stop_teardown" /\ pc'[t] # "stop_teardown")
                => /\ ~m_timerActive' /\ ~m_connected'
                   /\ pc'[t] = "clr_lockD"
          \* a call that loses the compare-exchange returns and changes nothing
          /\ (~local[t].casFailed /\ local'[t].casFailed)
                => /\ m_shuttingDown
                   /\ UNCHANGED <<dataVars, instance, pc, m_dataMutex,
                                  m_snapshotMutex>>
    \* the flag is raised by a winning call only
    /\ (m_shuttingDown' /\ ~m_shuttingDown)
          => \E t \in Callers : pc[t] = "idle" /\ pc'[t] = "stop_teardown"

\* C10: shutdown is executed exactly once.  For any number of sequential or
\* concurrent calls of stopProcessing, the destructor's included, exactly one
\* call wins the compare-exchange on m_shuttingDown and performs the teardown
\* (timer stopped, signals disconnected, clearData); every other call returns
\* without changing any state, and the flag never goes back to false.
C10_ShutdownOnce ==
    /\ [](stopWins <= 1 /\ (m_shuttingDown <=> stopWins = 1))
    /\ [](Cardinality({t \in Callers : pc[t] = "stop_teardown"}) <= 1)
    /\ [][C10_Step]_vars

\* one caller is still in its teardown when the other caller's call has
\* already returned from a failed compare-exchange
C10_Witness ==
    /\ stopWins = 1
    /\ \E t \in Callers, u \in Callers :
          /\ t # u
          /\ pc[t] = "stop_teardown"
          /\ local[u].casFailed /\ pc[u] = "idle"

-----------------------------------------------------------------------------
(* Properties of shutdown, clear and bootstrap (SpecIngest, Spec, SpecConc) *)

ProducerOps ==
    {"onTradeReceived", "onOrderBookUpdated", "onLiveOrderBookUpdated",
     "captureOrderBookSnapshot", "updateVisibleCells"}

\* C11: a producer operation that starts after stopProcessing has returned
\* is a no-op: it feeds nothing to the engine, leaves the latest order book,
\* the viewport, the working list, the processed-range set and the published
\* snapshot unchanged, and emits no notification.
C11_Step ==
    (m_shuttingDown /\ lastOp' \in ProducerOps) =>
        /\ fed' = <<>>
        /\ engineSnaps' = engineSnaps
        /\ m_latestOrderBook' = m_latestOrderBook
        /\ m_hasValidOrderBook' = m_hasValidOrderBook
        /\ viewState' = viewState
        /\ m_visibleCells' = m_visibleCells
        /\ m_processedTimeRanges' = m_processedTimeRanges
        /\ m_publishedCells' = m_publishedCells
        /\ signals' = <<>>
        /\ ~pass'.ran

C11_NoOpAfterShutdown == [][C11_Step]_vars

\* C11 witness: after shutdown, with view state and data cache attached, a
\* live order book update has been delivered
C11_Witness ==
    /\ m_shuttingDown /\ m_viewState /\ m_dataCache
    /\ lastOp = "onLiveOrderBookUpdated"

InStopOrClear ==
    {"stop_teardown", "clr_lockD", "clr_cs1", "clr_lockS", "clr_cs2", "clr_emit"}

\* the winning stopProcessing call has returned to its caller
StopReturned ==
    /\ stopWins = 1
    /\ \A t \in Callers : pc[t] \notin InStopOrClear

\* C12: an operation that passed its entry check before stopProcessing
\* started on another thread does not act on torn-down state: once
\* stopProcessing has returned the published snapshot is none and stays none,
\* and no in-flight pass or ingestion handler modifies the viewport.
C12_NoActionAfterTeardown ==
    /\ [](StopReturned => m_publishedCells = NoHandle)
    /\ [][StopReturned => viewState' = viewState]_vars

\* C13: after clearData returns, called directly or as part of a winning
\* stopProcessing, the working cell list and the processed-range set are
\* empty, the latest order book is absent, m_hasValidOrderBook is false and
\* the published snapshot is none.
C13_Step ==
    (lastOp' = "clearData" \/ (lastOp' = "stopProcessing" /\ ~m_shuttingDown)) =>
        /\ m_visibleCells' = <<>>
        /\ m_processedTimeRanges' = {}
        /\ m_latestOrderBook' = NoBook
        /\ ~m_hasValidOrderBook'
        /\ m_publishedCells' = NoHandle

C13_ClearEmptiesWorkingState == [][C13_Step]_vars

-----------------------------------------------------------------------------
(* Properties of the renderer's dirty flags and pan resync (SpecRender) *)

PaintCycle == lastOp' = "updatePaintNode" /\ ugr'.cycle.ran

\* C14: in every consumer cycle (updatePaintNode with a non-zero item size)
\* each of the four dirty flags is tested and atomically cleared: a flag set
\* when the cycle starts is clear when it ends (nothing sets a flag during
\* the cycle, the GUI thread being blocked).
C14_Step ==
    PaintCycle => \A flag \in DirtyFlags : ugr[flag] => ~ugr'[flag]

C14_EachFlagClearedOncePerCycle == [][C14_Step]_vars

\* C15: geometry supersedes the other classes of work.  In a consumer cycle
\* that starts with the geometry flag set or without a scene node, the
\* layered content is rebuilt exactly once, from the snapshot read in that
\* cycle, and neither the append nor the material branch rebuilds it again.
C15_Step ==
    (PaintCycle /\ (ugr.m_geometryDirty \/ ~ugr.sceneNode)) =>
        /\ ugr'.cycle.rebuilds = 1
        /\ ugr'.cycle.reads = 1
        /\ \A i \in DOMAIN ugr'.cycle.stages :
               ugr'.cycle.stages[i] \notin {"append", "material"}

C15_GeometrySupersedes == [][C15_Step]_vars

TransformOnly ==
    /\ ugr.sceneNode
    /\ ugr.m_transformDirty
    /\ ~ugr.m_geometryDirty /\ ~ugr.m_appendPending /\ ~ugr.m_materialDirty

\* C16: a consumer cycle in which only the transform flag is set and the
\* scene node exists reads no snapshot, keeps the held cell handle and the
\* layered content as they are, and sets the node transform to the pan
\* visual offset.
C16_Step ==
    (PaintCycle /\ TransformOnly) =>
        /\ ugr'.cycle.reads = 0
        /\ ugr'.cycle.rebuilds = 0
        /\ rendererCells' = rendererCells
        /\ ugr'.content = ugr.content
        /\ ugr'.cycle.stages = <<"transform">>
        /\ ugr'.transform = viewState.panVisualOffset
        /\ ~ugr'.m_transformDirty

C16_TransformOnlyCycle == [][C16_Step]_vars

\* a transform-only cycle has run while a newer snapshot than the held one
\* was published, and it moved the node by a drag offset
C16_Witness ==
    /\ lastOp = "updatePaintNode"
    /\ ugr.cycle.ran /\ ~ugr.cycle.isNewNode
    /\ ugr.cycle.stages = <<"transform">>
    /\ ugr.cycle.reads = 0
    /\ m_publishedCells # NoHandle
    /\ rendererCells # m_publishedCells
    /\ ugr.transform \in PanOffsets

\* C17: mouseReleaseEvent sets the pan-sync-pending marker and leaves the pan
\* visual offset as it is; the offset is cleared, and the marker reset, only
\* by the handler of a dataUpdated notification that finds the marker set,
\* which also sets the transform and append flags; a notification handled
\* with the marker clear does not clear the offset, so one pending marker is
\* answered by exactly one clear.
C17_Step ==
    /\ lastOp' = "mouseReleaseEvent" =>
           /\ ugr'.m_panSyncPending
           /\ ~ugr'.panCleared
           /\ viewState'.panVisualOffset = viewState.panVisualOffset
    /\ (\/ ugr'.panCleared
        \/ (viewState.panVisualOffset # 0 /\ viewState'.panVisualOffset = 0)
        \/ (ugr.m_panSyncPending /\ ~ugr'.m_panSyncPending)) =>
           /\ lastOp' = "onDataUpdated"
           /\ ugr.m_panSyncPending /\ ~ugr'.m_panSyncPending
           /\ ugr'.panCleared /\ viewState'.panVisualOffset = 0
           /\ ugr'.m_transformDirty /\ ugr'.m_appendPending
    /\ (lastOp' = "onDataUpdated" /\ ugr'.queued < ugr.queued) =>
           /\ ugr'.panCleared <=> ugr.m_panSyncPending
           /\ ugr'.m_appendPending
           /\ ~ugr.m_panSyncPending =>
                  viewState'.panVisualOffset = viewState.panVisualOffset

-----------------------------------------------------------------------------
(* Properties of the viewport bootstrap (SpecIngest, Spec) *)

\* the viewport of w is the bootstrap window around time t and price ref,
\* and the handler has emitted viewportInitialized
Bootstrapped(w, t, ref) ==
    /\ w.viewState.timeWindowValid
    /\ w.viewState.visibleTimeStart = t - 30000
    /\ w.viewState.visibleTimeEnd = t + 30000
    /\ w.viewState.minPrice = ref - 100
    /\ w.viewState.maxPrice = ref + 100
    /\ \E i \in DOMAIN w.signals : w.signals[i] = "viewportInitialized"

NeedsBootstrap == m_viewState /\ ~viewState.timeWindowValid /\ ~m_shuttingDown

AcceptedBook(book) ==
    book # NoBook /\ book.product_id # "" /\ book.bids # <<>> /\ book.asks # <<>>

AcceptedLive(id) ==
    /\ m_dataCache
    /\ \E i \in DOMAIN LiveBooks[id].bids :
           LiveBooks[id].bids[i] > 0 \/ LiveBooks[id].asks[i] > 0

C18_Trade ==
    NeedsBootstrap =>
        \A trade \in TradeInputs :
            trade.product_id # "" =>
                Bootstrapped(onTradeReceived(Begin(World), trade),
                             trade.timestamp, trade.price)

C18_Book ==
    NeedsBootstrap =>
        \A book \in BookInputs :
            AcceptedBook(book) =>
                Bootstrapped(onOrderBookUpdated(Begin(World), book),
                             book.timestamp,
                             (book.bids[1].price + book.asks[1].price) \div 2)

C18_Live ==
    NeedsBootstrap =>
        \A id \in LiveBookIds :
            AcceptedLive(id) =>
                /\ onLiveOrderBookUpdated(Begin(World), LiveBooks[id])
                       .viewState.timeWindowValid
                /\ \E i \in DOMAIN onLiveOrderBookUpdated(Begin(World),
                                                          LiveBooks[id]).signals :
                       onLiveOrderBookUpdated(Begin(World), LiveBooks[id])
                           .signals[i] = "viewportInitialized"

\* C18: the first trade, order book or live order-book update the processor
\* accepts while the viewport is not valid sets the time bounds to event
\* time -30000/+30000 ms and the price bounds to reference -100/+100 (trade
\* price or book mid price) and emits viewportInitialized.
C18_ViewportBootstrap == C18_Trade /\ C18_Book /\ C18_Live

ViewBounds(v) == <<v.visibleTimeStart, v.visibleTimeEnd, v.minPrice, v.maxPrice>>

NoViewportInitialized(sigs) ==
    \A i \in DOMAIN sigs : sigs[i] # "viewportInitialized"

TradeOrBookEvent == lastOp' \in {"onTradeReceived", "onOrderBookUpdated"}

\* viewportInitialized is emitted from an invalid viewport only, and a valid
\* viewport becomes invalid by a clear only: between two emissions there is
\* a clear
C19_AtMostOnce ==
    /\ ~NoViewportInitialized(signals') =>
           /\ ~viewState.timeWindowValid
           /\ viewState'.timeWindowValid
           /\ TradeOrBookEvent
    /\ (viewState.timeWindowValid /\ ~viewState'.timeWindowValid) =>
           lastOp' \in {"clearData", "stopProcessing"}

C19_OriginalStep ==
    /\ (viewState.timeWindowValid /\ TradeOrBookEvent) =>
           /\ ViewBounds(viewState') = ViewBounds(viewState)
           /\ NoViewportInitialized(signals')
    /\ C19_AtMostOnce

\* C19 as stated: once the viewport is valid, no later trade or order-book
\* event changes the viewport bounds or emits viewportInitialized, and
\* viewportInitialized is emitted at most once without an intervening clear.
C19_BootstrapOneTime == [][C19_OriginalStep]_vars

C19_AmendedStep ==
    /\ (viewState.timeWindowValid /\ TradeOrBookEvent) =>
           /\ NoViewportInitialized(signals')
           /\ viewState'.timeWindowValid
           /\ ViewBounds(viewState') # ViewBounds(viewState) =>
                  /\ pass'.snapped
                  /\ viewState.autoScrollEnabled
                  /\ viewState'.minPrice = viewState.minPrice
                  /\ viewState'.maxPrice = viewState.maxPrice
    /\ C19_AtMostOnce

\* C19 (amended): once the viewport is valid, no later trade or order-book
\* event bootstraps it again or emits viewportInitialized; such an event
\* changes the bounds only through the auto-fit snap of the pass it runs
\* (auto-scroll enabled, time bounds only); viewportInitialized is emitted
\* at most once without an intervening clear.
C19_BootstrapOnceSnapAside == [][C19_AmendedStep]_vars

\* an order book arrived with a valid viewport: nothing was emitted, and the
\* pass it ran snapped the time window to the data
C19_Witness ==
    /\ lastOp = "onOrderBookUpdated"
    /\ viewState.timeWindowValid
    /\ NoViewportInitialized(signals)
    /\ pass.ran /\ pass.snapped
    /\ m_latestOrderBook # NoBook

\* C20: with an unset or invalid viewport updateVisibleCells returns before
\* any query of the engine: no pass runs, the working list, the processed
\* ranges, the last-processed version, the active timeframe and the
\* published snapshot are unchanged, and nothing is emitted.
C20_Step ==
    (lastOp' = "updateVisibleCells"
         /\ (~m_viewState \/ ~viewState.timeWindowValid)) =>
        /\ ~pass'.ran
        /\ m_visibleCells' = m_visibleCells
        /\ m_processedTimeRanges' = m_processedTimeRanges
        /\ m_lastProcessedTime' = m_lastProcessedTime
        /\ m_lastViewportVersion' = m_lastViewportVersion
        /\ m_currentTimeframe_ms' = m_currentTimeframe_ms
        /\ m_manualTimeframeSet' = m_manualTimeframeSet
        /\ m_publishedCells' = m_publishedCells
        /\ heap' = heap
        /\ viewState' = viewState
        /\ engineSnaps' = engineSnaps
        /\ signals' = <<>>

C20_InvalidViewportSuppressesPass == [][C20_Step]_vars

\* updateVisibleCells was called on a live processor whose engine holds
\* data while the attached viewport is not valid, and no pass ran
C20_Witness ==
    /\ lastOp = "updateVisibleCells"
    /\ ~m_shuttingDown
    /\ m_viewState /\ ~viewState.timeWindowValid
    /\ engineSnaps # {}
    /\ ~pass.ran
    /\ signals = <<>>

-----------------------------------------------------------------------------
(* Properties of the aggregation pass: auto-fit, timeframe, cells *)

\* the processor as it is, with the viewport moved to start at `start`, one
\* bootstrap window wide, and auto-scroll switched to `auto`
AtViewport(w, start, auto) ==
    [w EXCEPT !.viewState =
         enableAutoScroll(setViewport(@, start, start + 60000,
                                      @.minPrice, @.maxPrice), auto)]

\* a pass from there up to its first query
Queried(start, auto) ==
    querySlices(chooseTimeframe(versionGate(beginPass(
        AtViewport(Begin(World), start, auto)))))

\* end of the newest slice the engine holds at the timeframe such a pass uses
NewestHeld(auto) == newestTime(Queried(0, auto))

EngineHoldsData(auto) ==
    AllSlices(engineSnaps, Queried(0, auto).pass.activeTimeframe) # <<>>

C21_Case(pre, post, newest, gap, auto) ==
    /\ pre.visibleSlices = <<>>
    /\ IF auto /\ gap > 60000
       THEN /\ post.viewState.visibleTimeStart = newest - 30000
            /\ post.viewState.visibleTimeEnd = newest + 30000
            /\ post.viewState.minPrice = pre.viewState.minPrice
            /\ post.viewState.maxPrice = pre.viewState.maxPrice
            /\ post.pass.queries = pre.pass.queries + 1
            /\ post.pass.unbounded = 1
       ELSE /\ post.viewState = pre.viewState
            /\ post.visibleSlices = <<>>
            /\ post.pass.queries = pre.pass.queries
            /\ post.pass.unbounded = IF auto THEN 1 ELSE 0

\* C21: when the visible-range query returns no slice, the engine holds data
\* and the viewport starts more than 60000 ms after the newest slice end,
\* then with auto-scroll the pass sets the time bounds to newest -30000 /
\* +30000, keeps the price bounds and repeats the query once; without
\* auto-scroll the viewport is untouched and no unbounded query is made; a
\* gap of exactly 60000 ms does not snap.
C21_AutoFitBoundary ==
    (m_viewState /\ viewState.timeWindowValid /\ engineSnaps # {}) =>
        \A auto \in BOOLEAN :
            EngineHoldsData(auto) =>
                \A gap \in {60000, 60001} :
                    C21_Case(Queried(NewestHeld(auto) + gap, auto),
                             autoFit(Queried(NewestHeld(auto) + gap, auto)),
                             NewestHeld(auto), gap, auto)

\* a pass of the processor found nothing in view, asked for everything,
\* snapped the window onto the newest data and queried once more
C21_Witness ==
    /\ pass.ran /\ pass.snapped
    /\ pass.queries = 2 /\ pass.unbounded = 1
    /\ engineSnaps # {}
    /\ viewState.autoScrollEnabled
    /\ viewState.visibleTimeEnd - viewState.visibleTimeStart = 60000
    /\ m_visibleCells # <<>>

\* the processor as it is, `elapsed` ms after the last setTimeframe
AtElapsed(w, elapsed) == [w EXCEPT !.now = w.m_manualTimeframeTimer + elapsed]

\* a pass from there up to its choice of timeframe
Chosen(w) == chooseTimeframe(versionGate(beginPass(Begin(w))))

C22_Within(w) ==
    /\ Chosen(w).pass.activeTimeframe = w.m_currentTimeframe_ms
    /\ Chosen(w).m_currentTimeframe_ms = w.m_currentTimeframe_ms
    /\ ~Chosen(w).pass.suggested
    /\ querySlices(Chosen(w)).visibleSlices =
           getVisibleSlices(w.engineSnaps, w.m_currentTimeframe_ms,
                            w.viewState.visibleTimeStart,
                            w.viewState.visibleTimeEnd)

C22_After(w) ==
    /\ Chosen(w).pass.suggested
    /\ Chosen(w).pass.activeTimeframe =
           suggestTimeframe(w.viewState.visibleTimeStart,
                            w.viewState.visibleTimeEnd, 2000)
    /\ Chosen(w).m_currentTimeframe_ms = Chosen(w).pass.activeTimeframe

C22_Windows ==
    (m_viewState /\ viewState.timeWindowValid /\ ~m_shuttingDown
         /\ m_manualTimeframeSet) =>
        /\ \A elapsed \in {0, 9999, 10000} : C22_Within(AtElapsed(World, elapsed))
        /\ \A elapsed \in {10001, 20000} : C22_After(AtElapsed(World, elapsed))
        /\ \A tf \in Timeframes :
               \A elapsed \in {0, 10000} :
                   C22_Within(AtElapsed(
                       setTimeframe(AtElapsed(World, 10001), tf), elapsed))

C22_Step ==
    (pass'.ran /\ m_manualTimeframeSet) =>
        /\ pass'.activeTimeframe = m_currentTimeframe_ms
        /\ m_currentTimeframe_ms' = m_currentTimeframe_ms
        /\ ~pass'.suggested

\* C22: after setTimeframe(t) with t > 0 every pass run within 10000 ms of
\* the call queries the engine with timeframe t and neither asks for nor
\* adopts the engine's suggestion; a pass run more than 10000 ms after it
\* adopts the suggestion; a later setTimeframe restarts the window.
C22_ManualTimeframePriority == []C22_Windows /\ [][C22_Step]_vars

\* a pass ran under a manual timeframe that the engine would not have
\* suggested for the viewport, and used it
C22_Witness ==
    /\ pass.ran /\ ~pass.suggested
    /\ m_manualTimeframeSet /\ m_manualTimeframeTimer >= 0
    /\ pass.activeTimeframe = m_currentTimeframe_ms
    /\ optimalTimeframe(World) # m_currentTimeframe_ms
    /\ engineSnaps # {}

LevelPrice(slice, j) == slice.minTick * slice.tickSize + (j - 1) * slice.tickSize

SideMetrics(slice, isBid) == IF isBid THEN slice.bidMetrics ELSE slice.askMetrics

\* level j of the slice, on the side of the cell, is what the cell shows, and
\* it passes the production filter under viewport v
CellOfLevel(cell, slice, j, v) ==
    /\ SideMetrics(slice, cell.isBid)[j].snapshotCount > 0
    /\ getDisplayValue(slice, LevelPrice(slice, j), cell.isBid) > 0
    /\ cell.liquidity = getDisplayValue(slice, LevelPrice(slice, j), cell.isBid)
    /\ cell.priceMin = LevelPrice(slice, j) - slice.tickSize \div 2
    /\ cell.priceMax = LevelPrice(slice, j) + slice.tickSize \div 2
    /\ LevelPrice(slice, j) >= v.minPrice /\ LevelPrice(slice, j) <= v.maxPrice
    /\ cell.timeStart_ms = slice.startTime_ms
    /\ slice.endTime_ms >= v.visibleTimeStart
    /\ slice.startTime_ms <= v.visibleTimeEnd

CellOfSlices(cell, slices, v) ==
    \E k \in DOMAIN slices :
        \E j \in DOMAIN SideMetrics(slices[k], cell.isBid) :
            CellOfLevel(cell, slices[k], j, v)

\* the working list changes in a pass only; the cells a pass adds come from
\* levels of the slices the engine holds at the pass's timeframe, under the
\* viewport of the pass; a published vector is a copy of the working list
C23_Step ==
    /\ ~pass'.ran => m_visibleCells' = m_visibleCells
    /\ pass'.ran =>
           \A i \in (pass'.beforeSize + 1)..Len(m_visibleCells') :
               CellOfSlices(m_visibleCells'[i],
                            AllSlices(engineSnaps', pass'.activeTimeframe),
                            viewState')
    /\ (m_publishedCells' # NoHandle /\ m_publishedCells' # m_publishedCells) =>
           heap'[m_publishedCells'] = m_visibleCells'

\* C23: every cell of the working list, and so of every published snapshot,
\* was created from a slice level with positive sample count and positive
\* display value, whose price was within the viewport's price bounds and
\* whose slice intersected the viewport's time window when the cell was
\* created; its side flag is the side of the level and its time-start the
\* start of the slice.
C23_CellProductionFilter == [][C23_Step]_vars

\* a pass has added bid and ask cells while the engine held a level outside
\* the price window, and published them
C23_Witness ==
    /\ pass.ran /\ Len(m_visibleCells) > pass.beforeSize
    /\ \E i \in DOMAIN m_visibleCells : m_visibleCells[i].isBid
    /\ \E i \in DOMAIN m_visibleCells : ~m_visibleCells[i].isBid
    /\ \E s \in engineSnaps :
           \E i \in DOMAIN s.asks : s.asks[i].price > viewState.maxPrice
    /\ m_publishedCells # NoHandle
    /\ heap[m_publishedCells] = m_visibleCells

IsPrefix(s, t) == Len(s) <= Len(t) /\ SubSeq(t, 1, Len(s)) = s

\* C24: between rebuilds the working list only grows at its end.  On every
\* step that is not a pass with a changed viewport version the working list
\* before the step is a prefix of the working list after it: cells are
\* never removed or reordered.
C24_Step ==
    ~(pass'.ran /\ pass'.viewportChanged) => IsPrefix(m_visibleCells, m_visibleCells')

C24_AppendOnlyBetweenRebuilds == [][C24_Step]_vars

\* a pass without a version change added cells behind the ones it found,
\* some of which lie in a slice that ended before the newest one
C24_Witness ==
    /\ pass.ran /\ ~pass.viewportChanged
    /\ pass.beforeSize > 0
    /\ Len(m_visibleCells) > pass.beforeSize
    /\ m_visibleCells[1].timeEnd_ms < m_lastProcessedTime

\* the version a pass reads is compared with, and stored as, the last one
\* seen; nothing else writes the last-seen version; every change of the
\* viewport bounds raises the version
C25_Gate ==
    /\ pass'.ran =>
           /\ pass'.lastSeenVersion = m_lastViewportVersion
           /\ pass'.viewportChanged <=>
                  pass'.currentViewportVersion # m_lastViewportVersion
           /\ pass'.viewportChanged => pass'.rebuild
           /\ m_lastViewportVersion' = pass'.currentViewportVersion
           /\ viewState.viewportVersion <= pass'.currentViewportVersion
           /\ pass'.currentViewportVersion <= viewState'.viewportVersion
    /\ ~pass'.ran => m_lastViewportVersion' = m_lastViewportVersion
    /\ viewState'.viewportVersion >= viewState.viewportVersion
    /\ ViewBounds(viewState') # ViewBounds(viewState) =>
           viewState'.viewportVersion > viewState.viewportVersion

\* a pass right after viewport mutations rebuilds; a pass right after a pass
\* that did not move the viewport itself does not
C25_Coalesce ==
    /\ (lastOp \in {"onViewChanged"} /\ lastOp' = "updateVisibleCells"
            /\ pass'.ran) =>
           pass'.viewportChanged /\ pass'.rebuild
    /\ (pass.ran /\ ~pass.snapped /\ lastOp' = "updateVisibleCells"
            /\ pass'.ran) =>
           ~pass'.viewportChanged

\* C25: viewport changes coalesce and are never missed.  Any number of
\* viewport mutations between the version read of one pass and that of the
\* next cause one full rebuild, in the next pass; a pass with no mutation
\* since the previous version read is not a version-triggered rebuild.
C25_ViewportChangesCoalesce ==
    /\ [](m_lastViewportVersion <= viewState.viewportVersion)
    /\ [][C25_Gate /\ C25_Coalesce]_vars

\* the viewport was changed twice since the last pass, and the next pass has
\* rebuilt once and caught up with the version
C25_Witness ==
    /\ lastOp = "updateVisibleCells"
    /\ pass.ran /\ pass.viewportChanged /\ pass.rebuild
    /\ pass.currentViewportVersion >= pass.lastSeenVersion + 2
    /\ m_lastViewportVersion = pass.currentViewportVersion
    /\ m_visibleCells # <<>>

-----------------------------------------------------------------------------
(* Properties of the change notification (SpecRenderLive) *)

CountOf(sigs, sig) == Cardinality({i \in DOMAIN sigs : sigs[i] = sig})

\* a pass that replaces the published snapshot emits dataUpdated once, and
\* the emission is posted to the consumer; a consumer cycle that starts
\* with the append flag set reads the published snapshot and holds it
C26_Step ==
    /\ (pass'.ran /\ m_publishedCells' # m_publishedCells) =>
           /\ CountOf(signals', "dataUpdated") = 1
           /\ ugr'.queued = ugr.queued + 1
    /\ (lastOp' = "onDataUpdated" /\ ugr'.queued < ugr.queued) =>
           ugr'.m_appendPending
    /\ (PaintCycle /\ ugr.m_appendPending) =>
           /\ ugr'.cycle.reads >= 1
           /\ m_publishedCells # NoHandle => rendererCells' = m_publishedCells

\* while the consumer holds another vector than the published one, a
\* notification is in flight or a content rebuild is pending
C26_Fresh ==
    (m_publishedCells # NoHandle /\ rendererCells # m_publishedCells) =>
        \/ ugr.queued > 0
        \/ ugr.m_appendPending
        \/ ugr.m_geometryDirty
        \/ ~ugr.sceneNode

\* C26: every replacement of the published snapshot by a pass is followed by
\* exactly one dataUpdated emission, each emission eventually sets the
\* consumer's append flag, and the consumer cycle that takes the flag reads
\* the snapshot published last, which is at least as new as the one that
\* caused the notification.
C26_ChangeNotification ==
    /\ [][C26_Step]_vars
    /\ []C26_Fresh
    /\ ((ugr.queued > 0 /\ ~ugr.m_appendPending) ~> ugr.m_appendPending)

\* a notification was handled and the next consumer cycle took over the
\* snapshot whose publication caused it
C26_Witness ==
    /\ lastOp = "updatePaintNode"
    /\ ugr.cycle.ran /\ ~ugr.cycle.isNewNode
    /\ ugr.cycle.stages = <<"append">>
    /\ ugr.queued = 0
    /\ rendererCells # NoHandle /\ rendererCells = m_publishedCells
    /\ ugr.content = heap[rendererCells] /\ ugr.content # <<>>

-----------------------------------------------------------------------------
(* Properties of the retained trades *)

AscendingStamps(trades) ==
    \A i \in 1..(Len(trades) - 1) : trades[i].timestamp < trades[i + 1].timestamp

C27_Step ==
    lastOp' = "rendererOnTradeReceived" =>
        /\ ugr'.tradeCalls # <<>>
        /\ ugr'.m_recentTrades # <<>>
        /\ ugr'.m_recentTrades[Len(ugr'.m_recentTrades)]
               = ugr'.tradeCalls[Len(ugr'.tradeCalls)]
        /\ IF Len(ugr.m_recentTrades) = MaxRecentTrades
           THEN /\ Len(ugr'.m_recentTrades) = MaxRecentTrades - EvictedTrades + 1
                /\ ugr'.m_recentTrades
                       = SubSeq(ugr.m_recentTrades, EvictedTrades + 1,
                                MaxRecentTrades)
                           \o <<ugr'.tradeCalls[Len(ugr'.tradeCalls)]>>
           ELSE ugr'.m_recentTrades
                    = ugr.m_recentTrades
                        \o <<ugr'.tradeCalls[Len(ugr'.tradeCalls)]>>

\* C27: after every UnifiedGridRenderer::onTradeReceived the retained list has
\* at most 1000 entries, is in arrival order and ends with the trade just
\* received; the insertion that would make it 1001 long removes exactly the
\* 100 oldest entries (901 remain) and every other insertion removes nothing
C27_TradeRetentionBound ==
    /\ [](Len(ugr.m_recentTrades) <= MaxRecentTrades
          /\ AscendingStamps(ugr.m_recentTrades))
    /\ [][C27_Step]_vars

C27_Witness ==
    /\ lastOp = "rendererOnTradeReceived"
    /\ Len(ugr.m_recentTrades) = MaxRecentTrades - EvictedTrades + 1
    /\ ugr.m_recentTrades[1].timestamp = EventTime + EvictedTrades + 1

-----------------------------------------------------------------------------
(* Properties of the live order book ingestion *)

PassesGuards == ~m_shuttingDown /\ m_dataCache

\* the highest bid index and the lowest ask index holding a positive quantity
TopBidIdx(lb) ==
    CHOOSE i \in 1..Len(lb.bids) :
        lb.bids[i] > 0 /\ \A j \in (i + 1)..Len(lb.bids) : lb.bids[j] <= 0

TopAskIdx(lb) ==
    CHOOSE i \in 1..Len(lb.asks) :
        lb.asks[i] > 0 /\ \A j \in 1..(i - 1) : lb.asks[j] <= 0

HasBid(lb) == \E i \in 1..Len(lb.bids) : lb.bids[i] > 0
HasAsk(lb) == \E i \in 1..Len(lb.asks) : lb.asks[i] > 0

C28_Bids(lb, mode, value) ==
    (HasBid(lb) /\ bandScan(lb, mode, value).bids = <<>>) =>
        /\ Len(sparsePath(Begin(World), lb, mode, value).fed) = 1
        /\ sparsePath(Begin(World), lb, mode, value).fed[1].bids
               = <<Level(lb.minPrice + (TopBidIdx(lb) - 1) * lb.tickSize,
                         lb.bids[TopBidIdx(lb)])>>

C28_Asks(lb, mode, value) ==
    (HasAsk(lb) /\ bandScan(lb, mode, value).asks = <<>>) =>
        /\ Len(sparsePath(Begin(World), lb, mode, value).fed) = 1
        /\ sparsePath(Begin(World), lb, mode, value).fed[1].asks
               = <<Level(lb.minPrice + (TopAskIdx(lb) - 1) * lb.tickSize,
                         lb.asks[TopAskIdx(lb)])>>

C28_Fed(lb, mode, value) ==
    (HasBid(lb) \/ HasAsk(lb)) =>
        Len(sparsePath(Begin(World), lb, mode, value).fed) = 1

\* C28: in the sparse path, for every dense book, band mode and band value, a
\* side that has a best price and on which the band scan emits no level
\* holds exactly that best price with its quantity in the banded snapshot;
\* the engine is fed a snapshot whenever the book has a positive quantity
C28_BandFallback ==
    PassesGuards =>
        \A lb \in BandBooks, setting \in BandSettings :
            /\ C28_Bids(lb, setting[1], setting[2])
            /\ C28_Asks(lb, setting[1], setting[2])
            /\ C28_Fed(lb, setting[1], setting[2])

FallbackFed(lb, mode, value) ==
    /\ Cardinality(NonZeroIdx(lb.bids)) = 2
    /\ bandScan(lb, mode, value).bids = <<>>
    /\ bandScan(lb, mode, value).asks = <<>>
    /\ fed = <<bandSnapshot(lb, mode, value, now)>>

C28_Witness ==
    /\ lastOp = "onLiveOrderBookUpdated"
    /\ \E lb \in BandBooks, setting \in BandSettings :
          FallbackFed(lb, setting[1], setting[2])
    /\ Len(fed[1].bids) = 1 /\ Len(fed[1].asks) = 1

Ingested(lb, dense, mode, value) ==
    onLiveOrderBookUpdatedWith(Begin(World), lb, dense, mode, value)

\* every positive quantity of a side, as levels
PositiveLevels(lb, side) ==
    {Level(lb.minPrice + (i - 1) * lb.tickSize, side[i]) :
         i \in {j \in 1..Len(side) : side[j] > 0}}

LevelSet(levels) == {levels[i] : i \in 1..Len(levels)}

\* the snapshot holds every positive quantity of the dense book, once
IsDenseSnapshotOf(ob, lb) ==
    /\ LevelSet(ob.bids) = PositiveLevels(lb, lb.bids)
    /\ LevelSet(ob.asks) = PositiveLevels(lb, lb.asks)
    /\ Len(ob.bids) = Cardinality(PositiveLevels(lb, lb.bids))
    /\ Len(ob.asks) = Cardinality(PositiveLevels(lb, lb.asks))

C29_AtMostOne(lb, dense, mode, value) ==
    Len(Ingested(lb, dense, mode, value).fed) <= 1

C29_Dense(lb, mode, value) ==
    (PassesGuards /\ (HasBid(lb) \/ HasAsk(lb))) =>
        /\ Len(Ingested(lb, TRUE, mode, value).fed) = 1
        /\ IsDenseSnapshotOf(Ingested(lb, TRUE, mode, value).fed[1], lb)
        /\ Ingested(lb, TRUE, mode, value).m_latestOrderBook = m_latestOrderBook

C29_Sparse(lb, dense, mode, value) ==
    (PassesGuards /\ ~(dense /\ (HasBid(lb) \/ HasAsk(lb)))) =>
        /\ Ingested(lb, dense, mode, value).fed
               = IF HasBid(lb) \/ HasAsk(lb)
                 THEN <<bandSnapshot(lb, mode, value, now)>> ELSE <<>>
        /\ Ingested(lb, dense, mode, value).m_latestOrderBook
               = IF HasBid(lb) \/ HasAsk(lb)
                 THEN bandSnapshot(lb, mode, value, now) ELSE m_latestOrderBook

\* C29: every onLiveOrderBookUpdated call feeds the engine at most one
\* snapshot; with dense ingestion enabled and a dense capture of at least one
\* level it is exactly the dense snapshot and the latest order book is left
\* unchanged; otherwise the sparse banding path runs
C29_IngestionPathsExclusive ==
    \A lb \in BandBooks, setting \in BandSettings :
        /\ \A dense \in BOOLEAN :
              /\ C29_AtMostOne(lb, dense, setting[1], setting[2])
              /\ C29_Sparse(lb, dense, setting[1], setting[2])
        /\ C29_Dense(lb, setting[1], setting[2])

C29_Witness ==
    /\ lastOp = "onLiveOrderBookUpdated"
    /\ Len(fed) = 1
    /\ Len(fed[1].bids) = 2
    /\ m_latestOrderBook # NoBook
    /\ Len(m_latestOrderBook.bids) = 1
    /\ \E lb \in BandBooks : IsDenseSnapshotOf(fed[1], lb)

-----------------------------------------------------------------------------
(* Properties of malformed inputs *)

MalformedTrade(trade) == trade.product_id = "" \/ trade.size <= 0

\* a null book, a book without instrument id, books with an empty side
MalformedBooks ==
    {NoBook,
     [OrderBook("A", EventTime) EXCEPT !.product_id = ""],
     [OrderBook("A", EventTime) EXCEPT !.bids = <<>>],
     [OrderBook("A", EventTime) EXCEPT !.asks = <<>>]}

\* the processor's state is as before the handler: view, stored book, engine,
\* no signal, no feed, no pass
ProcessorUntouched ==
    /\ viewState' = viewState
    /\ m_latestOrderBook' = m_latestOrderBook
    /\ m_hasValidOrderBook' = m_hasValidOrderBook
    /\ engineSnaps' = engineSnaps
    /\ m_publishedCells' = m_publishedCells
    /\ signals' = <<>> /\ fed' = <<>> /\ ~pass'.ran

C30_Books ==
    \A book \in MalformedBooks :
        onOrderBookUpdated(Begin(World), book) = Begin(World)

\* the processor's handler drops a trade without instrument id
C30_EmptyIdAtProcessor ==
    (lastOp' = "onTradeReceived" /\ Head(ugr.tradeCalls).product_id = "")
        => ProcessorUntouched

\* the processor's handler drops every malformed trade
C30_AtProcessor ==
    (lastOp' = "onTradeReceived" /\ MalformedTrade(Head(ugr.tradeCalls)))
        => ProcessorUntouched

\* the renderer's handler does not retain a malformed trade
C30_AtRenderer ==
    (lastOp' = "rendererOnTradeReceived"
         /\ MalformedTrade(ugr'.tradeCalls[Len(ugr'.tradeCalls)]))
        => ugr'.m_recentTrades = ugr.m_recentTrades

C30_BooksDropped == []C30_Books
C30_EmptyIdDroppedByProcessor == [][C30_EmptyIdAtProcessor]_vars
C30_MalformedDroppedByProcessor == [][C30_AtProcessor]_vars
C30_MalformedNotRetained == [][C30_AtRenderer]_vars

\* C30: a trade with an empty instrument id or a non-positive size, and an
\* order book that is null, has no instrument id or has an empty side, change
\* nothing: no viewport bootstrap, no retention in the recent-trade list or as
\* latest order book, no engine feed, no pass, no notification
C30_MalformedInputsDropped ==
    /\ []C30_Books
    /\ [][C30_AtProcessor /\ C30_AtRenderer]_vars

-----------------------------------------------------------------------------
(* Properties of the pan resynchronisation *)

\* a notification still queued when mouseReleaseEvent returns was posted by
\* a pass that ran before handlePanEnd; the GUI thread handles it next
StaleDelivery ==
    /\ lastOp = "mouseReleaseEvent"
    /\ viewState.panVisualOffset # 0
    /\ ugr.queued > 0
    /\ lastOp' = "onDataUpdated"

C31_Step ==
    StaleDelivery =>
        /\ ~ugr'.panCleared
        /\ ugr'.m_panSyncPending
        /\ viewState'.panVisualOffset = viewState.panVisualOffset

\* C31: a dataUpdated notification emitted by a pass that ran before the pan
\* ended and delivered after mouseReleaseEvent does not clear the pan visual
\* offset; only a notification of a pass that read the viewport after the
\* pan ended does
C31_NoSnapBackAfterPan == [][C31_Step]_vars

-----------------------------------------------------------------------------
(* Properties of the auto-fit recovery *)

\* a pass with auto-scroll over the window [start, start + HalfWindowMs], up
\* to its first query
QueriedFrom(start) ==
    querySlices(chooseTimeframe(versionGate(beginPass(
        [Begin(World) EXCEPT !.viewState =
             enableAutoScroll(setViewport(@, start, start + HalfWindowMs,
                                          @.minPrice, @.maxPrice), TRUE)]))))

HeldSlices == AllSlices(engineSnaps, QueriedFrom(0).pass.activeTimeframe)

OldestStart == HeldSlices[1].startTime_ms
NewestEnd == HeldSlices[Len(HeldSlices)].endTime_ms

C32_Recovers(pre) ==
    pre.visibleSlices = <<>> =>
        /\ autoFit(pre).viewState.visibleTimeStart = NewestEnd - 30000
        /\ autoFit(pre).viewState.visibleTimeEnd = NewestEnd + 30000

\* the window starts 60001 ms after the newest data
C32_AfterNewest ==
    (m_viewState /\ viewState.timeWindowValid /\ engineSnaps # {}) =>
        C32_Recovers(QueriedFrom(NewestEnd + 60001))

\* the window ends 60001 ms before the oldest data
C32_BeforeOldest ==
    (m_viewState /\ viewState.timeWindowValid /\ engineSnaps # {}) =>
        C32_Recovers(QueriedFrom(OldestStart - 60001 - HalfWindowMs))

\* C32: when the visible-range query is empty, auto-scroll is enabled and all
\* held data lies more than 60000 ms away from the window, entirely before it
\* or entirely after it, the pass snaps the time bounds to newest -30000 /
\* +30000
C32_AutoFitEitherDirection == C32_AfterNewest /\ C32_BeforeOldest

-----------------------------------------------------------------------------
(* Properties of the order of the engine's snapshots *)

\* the timestamps a handler passes to addOrderBookSnapshot do not decrease,
\* and none is older than a snapshot the engine already holds
C33_Step ==
    \A i \in 1..Len(fed') :
        /\ \A held \in engineSnaps : held.timestamp <= fed'[i].timestamp
        /\ \A j \in 1..(i - 1) : fed'[j].timestamp <= fed'[i].timestamp

C33_SamplerAlone ==
    [][(lastOp' = "captureOrderBookSnapshot"
          /\ \A held \in engineSnaps : held.timestamp % BucketMs = 0)
       => C33_Step]_vars

-----------------------------------------------------------------------------
(* Properties of the published snapshot after a pass *)

PublishedEqualsWorking ==
    /\ m_publishedCells # NoHandle
    /\ m_publishedCells \in DOMAIN heap
    /\ heap[m_publishedCells] = m_visibleCells

\* C34: whenever an updateVisibleCells pass with a valid viewport completes
\* on a processor that is not shut down, the published snapshot is not none
\* and its cell sequence equals the working list, after any sequence of
\* passes, viewport changes and clearData calls
C34_PublishedEqualsWorking == pass.ran => PublishedEqualsWorking

\* a pass leaves the published snapshot none only if it found nothing to
\* publish after a clearData
C34_NoneOnlyUnchanged ==
    pass.ran =>
        \/ PublishedEqualsWorking
        \/ (m_publishedCells = NoHandle /\ ~pass.changed)

\* a pass that finds the viewport version changed publishes the working list
C34_PublishesAfterVersionChange ==
    (passEnabled(World) /\ viewState.viewportVersion # m_lastViewportVersion) =>
        /\ updateVisibleCells(Begin(World)).m_publishedCells # NoHandle
        /\ updateVisibleCells(Begin(World)).heap
               [updateVisibleCells(Begin(World)).m_publishedCells]
               = updateVisibleCells(Begin(World)).m_visibleCells

-----------------------------------------------------------------------------
(* Properties of the timeframe of the cells *)

\* a cell spans the slice it was created from: its width is the timeframe
CellTimeframe(cell) == cell.timeEnd_ms - cell.timeStart_ms

OneTimeframe(cells) ==
    \A i, j \in 1..Len(cells) : CellTimeframe(cells[i]) = CellTimeframe(cells[j])

\* C35: all cells of the working list, and of any published snapshot, were
\* created from slices of one and the same timeframe; a change of the active
\* timeframe without a change of the viewport version does not leave cells of
\* the old timeframe next to cells of the new one
C35_SingleTimeframePerSnapshot ==
    /\ OneTimeframe(m_visibleCells)
    /\ \A h \in DOMAIN heap : OneTimeframe(heap[h])

-----------------------------------------------------------------------------
(* Properties of the pass after an auto-fit snap *)

\* the step is a pass that snapped: it has stored the version it read and
\* has itself moved the viewport to a later version
C36_Snap ==
    pass'.snapped =>
        /\ m_lastViewportVersion' = pass'.currentViewportVersion
        /\ viewState'.viewportVersion > m_lastViewportVersion'

\* the step is the pass that directly follows a pass that snapped
C36_Next ==
    (pass.snapped /\ pass'.ran) =>
        /\ pass'.currentViewportVersion = viewState.viewportVersion
        /\ pass'.viewportChanged /\ pass'.rebuild
        /\ pass'.beforeSize = 0
        /\ m_processedTimeRanges'
               = {pass'.ranges[i] : i \in 1..Len(pass'.ranges)}
        /\ m_publishedCells' # NoHandle
        /\ m_publishedCells' \notin DOMAIN heap
        /\ heap'[m_publishedCells'] = m_visibleCells'
        /\ \E i \in DOMAIN signals' : signals'[i] = "dataUpdated"

\* C36: a pass that performs the auto-fit snap changes the viewport version
\* itself after having recorded the old one as last processed, so the next
\* pass is a full rebuild (working list and processed ranges cleared, snapshot
\* published again) although nobody else touched the viewport and no new
\* slice arrived
C36_SnapForcesRebuild == [][C36_Snap /\ C36_Next]_vars

\* a rebuild over a window centred on the end of a slice, one version after
\* the pass before it
C36_Witness ==
    /\ pass.ran /\ pass.viewportChanged /\ ~pass.snapped
    /\ pass.currentViewportVersion = pass.lastSeenVersion + 1
    /\ (viewState.visibleTimeStart + HalfWindowMs) % BucketMs = 0
    /\ viewState.visibleTimeEnd = viewState.visibleTimeStart + 2 * HalfWindowMs
    /\ m_visibleCells # <<>>

-----------------------------------------------------------------------------
(* Properties of the dirty flags across cycles *)

\* the branch of updatePaintNode that does the work a flag stands for
WorkOf(flag) ==
    CASE flag = "m_geometryDirty" -> "geometry"
      [] flag = "m_appendPending" -> "append"
      [] flag = "m_materialDirty" -> "material"
      [] flag = "m_transformDirty" -> "transform"

\* flag.store(true) by another thread
store(f, flag) == [f EXCEPT !.r[flag] = TRUE]

\* a sized cycle up to the point `at`: 0 before the first exchange, 1 after
\* the geometry/append chain, 2 after the material test, 3 at its end
CycleUpTo(f, at) ==
    CASE at = 0 -> beginCycle(f)
      [] at = 1 -> geometryOrAppendStage(beginCycle(f))
      [] at = 2 -> materialStage(geometryOrAppendStage(beginCycle(f)))
      [] at = 3 -> transformStage(materialStage(geometryOrAppendStage(beginCycle(f))))

\* the rest of the cycle from that point
CycleFrom(f, at) ==
    CASE at = 0 -> transformStage(materialStage(geometryOrAppendStage(f)))
      [] at = 1 -> transformStage(materialStage(f))
      [] at = 2 -> transformStage(f)
      [] at = 3 -> f

\* the flag stored at that point is still set when the cycle ends, or its
\* work was done after the store
KeptOrWorked(flag, at) ==
    \/ CycleFrom(store(CycleUpTo(Frame, at), flag), at).r[flag]
    \/ \E i \in (Len(CycleUpTo(Frame, at).r.cycle.stages) + 1)
                ..Len(CycleFrom(store(CycleUpTo(Frame, at), flag), at).r.cycle.stages) :
           CycleFrom(store(CycleUpTo(Frame, at), flag), at).r.cycle.stages[i]
               = WorkOf(flag)

C37_During == \A flag \in DirtyFlags, at \in 0..3 : KeptOrWorked(flag, at)

\* a flag goes from set to clear only in a sized cycle that does its work
C37_Cleared ==
    \A flag \in DirtyFlags :
        (ugr[flag] /\ ~ugr'[flag]) =>
            /\ PaintCycle
            /\ \E i \in DOMAIN ugr'.cycle.stages :
                   ugr'.cycle.stages[i] = WorkOf(flag)

\* a cycle of an item without width or height
C37_Unsized ==
    (lastOp' = "updatePaintNode" /\ ~ugr'.cycle.ran) =>
        /\ \A flag \in DirtyFlags : ugr'[flag] = ugr[flag]
        /\ ugr'.cycle = NoCycle
        /\ ugr'.content = ugr.content /\ ugr'.transform = ugr.transform
        /\ ugr'.sceneNode = ugr.sceneNode
        /\ rendererCells' = rendererCells

\* C37: no dirty flag is lost: a flag set before, during or after the
\* exchanges of a cycle, or around a cycle that returns early for an item
\* without width or height, stays set until a cycle does its class of work;
\* a cycle of an item without width or height changes no flag and does no
\* work
C37_NoDirtyFlagLost == []C37_During /\ [][C37_Cleared /\ C37_Unsized]_vars

\* an unsized cycle has run over a renderer with flags set
C37_Witness ==
    /\ lastOp = "updatePaintNode"
    /\ ~ugr.cycle.ran
    /\ ugr.sceneNode
    /\ ugr.m_appendPending /\ ugr.m_transformDirty /\ ugr.m_materialDirty

-----------------------------------------------------------------------------
(* Properties of the renderer's held cell handle.                           *)

\* the cycle called UnifiedGridRenderer::updateVisibleCells
Refreshed == PaintCycle /\ ugr'.cycle.reads > 0

C38_Replaces ==
    (Refreshed /\ m_publishedCells # NoHandle) =>
        rendererCells' = m_publishedCells

C38_Keeps ==
    (lastOp' = "updatePaintNode" /\ m_publishedCells = NoHandle) =>
        rendererCells' = rendererCells

C38_OnlyChanges ==
    rendererCells' # rendererCells =>
        \/ Refreshed /\ m_publishedCells # NoHandle
        \/ lastOp' = "rendererClearData" /\ rendererCells' = NoHandle

\* C38: a refresh of the renderer replaces the held cell handle with the
\* published one only when a snapshot is published; while the published
\* snapshot is none a paint cycle keeps the handle it holds, and the handle
\* goes back to none only in UnifiedGridRenderer::clearData.
C38_RefreshNeverDropsToEmpty ==
    [][C38_Replaces /\ C38_Keeps /\ C38_OnlyChanges]_vars

\* a cycle refreshed while nothing was published and kept its cells
C38_Witness ==
    /\ lastOp = "updatePaintNode"
    /\ ugr.cycle.reads > 0
    /\ m_publishedCells = NoHandle
    /\ rendererCells # NoHandle

-----------------------------------------------------------------------------
(* Properties of DataProcessor::onTradeReceived.                            *)

TradeStep == lastOp' = "onTradeReceived"

\* the trade found no valid time window on a set view state and was accepted
TradeBootstraps ==
    /\ ~m_shuttingDown
    /\ m_viewState
    /\ ~viewState.timeWindowValid

C39_NoIngestion ==
    /\ fed' = <<>>
    /\ engineSnaps' = engineSnaps
    /\ ~pass'.ran
    /\ \A i \in DOMAIN signals' : signals'[i] # "dataUpdated"

C39_DataUnchanged ==
    /\ m_visibleCells' = m_visibleCells
    /\ m_processedTimeRanges' = m_processedTimeRanges
    /\ m_latestOrderBook' = m_latestOrderBook
    /\ m_hasValidOrderBook' = m_hasValidOrderBook
    /\ m_publishedCells' = m_publishedCells
    /\ heap' = heap
    /\ m_lastViewportVersion' = m_lastViewportVersion
    /\ m_currentTimeframe_ms' = m_currentTimeframe_ms

C39_OnlyBootstrap ==
    /\ viewState' # viewState => TradeBootstraps
    /\ signals' # <<>> =>
           TradeBootstraps /\ signals' = <<"viewportInitialized">>

\* C39: a trade handled by the processor feeds nothing to the engine, runs
\* no visible-cells pass, leaves the working list, the processed ranges, the
\* latest order book and the published snapshot as they were and emits no
\* dataUpdated; the view state changes only by the viewport bootstrap.
C39_TradeOnlyBootstraps ==
    [][TradeStep => C39_NoIngestion /\ C39_DataUnchanged /\ C39_OnlyBootstrap]_vars

\* a trade was handled while the processor held a book, cells and a valid
\* window
C39_Witness ==
    /\ lastOp = "onTradeReceived"
    /\ ~m_shuttingDown
    /\ m_hasValidOrderBook
    /\ m_visibleCells # <<>>
    /\ m_publishedCells # NoHandle
    /\ viewState.timeWindowValid

-----------------------------------------------------------------------------
(* Properties of UnifiedGridRenderer::setTimeframe.                         *)

RendererTimeframeStep == lastOp' = "rendererSetTimeframe"

\* the processor's timeframe, override and everything else it holds
C40_ProcessorUnchanged ==
    /\ m_currentTimeframe_ms' = m_currentTimeframe_ms
    /\ m_manualTimeframeSet' = m_manualTimeframeSet
    /\ m_manualTimeframeTimer' = m_manualTimeframeTimer
    /\ m_visibleCells' = m_visibleCells
    /\ m_publishedCells' = m_publishedCells
    /\ m_lastViewportVersion' = m_lastViewportVersion
    /\ viewState' = viewState
    /\ signals' = <<>>
    /\ ~pass'.ran

\* t, the marker, the registration and the geometry flag at the renderer
C40_Recorded ==
    /\ ugr'.m_currentTimeframe_ms = ugr'.requested
    /\ ugr'.m_manualTimeframeSet
    /\ ugr'.requested \in ugr'.registered
    /\ ugr'.m_geometryDirty

\* a call with the timeframe the renderer already has does nothing
C40_Ignored ==
    /\ ugr'.m_manualTimeframeSet = ugr.m_manualTimeframeSet
    /\ ugr'.registered = ugr.registered
    /\ ugr'.m_geometryDirty = ugr.m_geometryDirty
    /\ ugr'.m_currentTimeframe_ms = ugr.m_currentTimeframe_ms

\* the pass chooses by the processor's own override alone
C40_NextPass ==
    (pass'.ran /\ ~m_manualTimeframeSet) =>
        /\ pass'.suggested
        /\ ~m_manualTimeframeSet'
        /\ pass'.activeTimeframe = m_currentTimeframe_ms'

====
